---- MODULE Spec2Model ----
(***************************************************************************)
(* A model of bfc: the parser (src/src/parser.cpp), the instruction tree   *)
(* and its structural equality (src/src/bfir.cpp), the peephole passes     *)
(* (src/src/optimisations.cpp), the lowering to basic blocks               *)
(* (src/src/bfir.cpp) and the reference interpreter (src/c/main.c).        *)
(*                                                                         *)
(* A std::string is a sequence of one-character strings; the code's        *)
(* indices are 0-based, so Source[I] of the code is At(Source, I) here.    *)
(***************************************************************************)
EXTENDS Integers, Sequences, FiniteSets, TLC

VARIABLES
    Source,         \* the program text handed to parseSource and to eval_program
    stage,          \* where the run is: "parse", "exit", "parsed", "pass1" .. "pass5",
                    \* "optimised", "compiled"; "compare", "compared" for comparisons
    Stack,          \* the activations of parseSourceBetween, innermost last
    Err,            \* what the parser wrote to errs() before exit(EXIT_FAILURE)
    Original,       \* the BFProgram handed to the first pass
    Program,        \* the BFProgram value threaded through the pipeline
    Main,           \* the function "main" of the Module compileProgram returns
    Input,          \* the bytes on stdin of the program when it is run
    charSigned,     \* whether char is a signed type where the interpreter is built
    run,            \* the machine running the lowered function
    ev,             \* the locals of eval_program
    ProgX, ProgY,   \* two Programs handed to operator== and operator!=
    Verdict,        \* what the last comparison returned
    Heap,           \* the instruction objects in memory: Heap[a] is the one at address a
    Arg,            \* the BFProgram a pass is called on, as its vector of BFInstPtr
    Ret             \* the BFProgram the pass returns, as its vector of BFInstPtr

parserVars == <<Source, stage, Stack, Err>>

runVars == <<Main, Input, charSigned, run, ev>>

eqVars == <<ProgX, ProgY, Verdict>>

heapVars == <<Heap, Arg, Ret>>

vars == <<Source, stage, Stack, Err, Original, Program, Main, Input, charSigned,
          run, ev, ProgX, ProgY, Verdict, Heap, Arg, Ret>>

----------------------------------------------------------------------------
\* Bounds of the model

MaxSrcLen == 4

\* The characters a source is drawn from: the eight markers and "c", which
\* stands for every other character.
Alphabet == {"+", "-", ">", "<", ",", ".", "[", "]", "c"}

RECURSIVE SeqsUpTo(_, _)
SeqsUpTo(S, n) ==
    IF n = 0 THEN {<<>>}
    ELSE LET shorter == SeqsUpTo(S, n - 1)
         IN  shorter \cup {Append(s, c) : s \in {t \in shorter : Len(t) = n - 1}, c \in S}

Sources == SeqsUpTo(Alphabet, MaxSrcLen)

At(S, I) == S[I + 1]

----------------------------------------------------------------------------
\* The instruction tree (src/src/bfir.hpp)

BFIncrement(amount) == [type |-> "BFIncrement", Amount |-> amount]

BFDataIncrement(amount) == [type |-> "BFDataIncrement", Amount |-> amount]

BFRead == [type |-> "BFRead"]

BFWrite == [type |-> "BFWrite"]

BFLoop(body) == [type |-> "BFLoop", LoopBody |-> body]

BFSet(amount) == [type |-> "BFSet", Amount |-> amount]

----------------------------------------------------------------------------
\* Structural equality (src/src/bfir.cpp, operator== and operator!=)

\* A comparison that looks at the variant and, for loops, at the size of
\* the body only.
InstEqShallow(X, Y) ==
    IF X.type # Y.type THEN FALSE
    ELSE IF X.type \in {"BFIncrement", "BFDataIncrement"} THEN X.Amount = Y.Amount
    ELSE IF X.type = "BFLoop" THEN Len(X.LoopBody) = Len(Y.LoopBody)
    ELSE TRUE

\* bool operator==(const BFInstruction &X, const BFInstruction &Y): the
\* typeid test, then one dynamic_cast block per class that has a payload;
\* an instruction of any other class falls through to "return true".
\* InstNe is operator!=, ProgEq and ProgNe are operator== and operator!=
\* of BFProgram.
RECURSIVE InstEq(_, _), InstNe(_, _)
InstEq(X, Y) ==
    IF X.type # Y.type THEN FALSE
    ELSE IF X.type = "BFIncrement" THEN X.Amount = Y.Amount
    ELSE IF X.type = "BFDataIncrement" THEN X.Amount = Y.Amount
    ELSE IF X.type = "BFLoop"
        THEN IF Len(X.LoopBody) # Len(Y.LoopBody) THEN FALSE
             ELSE \A k \in 1..Len(X.LoopBody) :
                      ~InstNe(X.LoopBody[k], Y.LoopBody[k])
    ELSE TRUE

InstNe(X, Y) == ~InstEq(X, Y)

\* A comparison of Programs without the test of the sizes: X against the
\* first instructions of Y.
ProgEqPrefix(X, Y) ==
    /\ Len(X) <= Len(Y)
    /\ \A k \in 1..Len(X) : ~InstNe(X[k], Y[k])

ProgEq(X, Y) ==
    IF Len(X) # Len(Y) THEN FALSE
    ELSE \A k \in 1..Len(X) : ~InstNe(X[k], Y[k])

ProgNe(X, Y) == ~ProgEq(X, Y)

----------------------------------------------------------------------------
\* The bracket matcher (src/src/parser.cpp, findMatchingClose)

\* The for loop of findMatchingClose, entered at its test with the loop
\* variable I and the counter OpenCount.
RECURSIVE findMatchingCloseLoop(_, _, _)
findMatchingCloseLoop(Src, I, OpenCount) ==
    IF ~(I < Len(Src)) THEN -1
    ELSE LET c == At(Src, I)
             count == IF c = "[" THEN OpenCount + 1
                      ELSE IF c = "]" THEN OpenCount - 1
                      ELSE OpenCount
         IN  IF count = 0 THEN I ELSE findMatchingCloseLoop(Src, I + 1, count)

\* A matcher that takes the first ']' after OpenIndex, whatever the nesting.
findFirstClose(Src, OpenIndex) ==
    LET closes == {j \in (OpenIndex + 1)..(Len(Src) - 1) : At(Src, j) = "]"}
    IN  IF closes = {} THEN -1 ELSE CHOOSE j \in closes : \A k \in closes : j <= k

findMatchingClose(Src, OpenIndex) == findMatchingCloseLoop(Src, OpenIndex, 0)

----------------------------------------------------------------------------
\* The parser as the recursive function it is (src/src/parser.cpp)

SimpleMarkers == {"+", "-", ">", "<", ",", "."}

\* A switch whose cases for '>' and '<' are exchanged.
InstructionForMirrored(c) ==
    CASE c = "+" -> BFIncrement(1)
      [] c = "-" -> BFIncrement(-1)
      [] c = ">" -> BFDataIncrement(-1)
      [] c = "<" -> BFDataIncrement(1)
      [] c = "," -> BFRead
      [] c = "." -> BFWrite

\* The instruction pushed by the case of the switch for a simple marker.
InstructionFor(c) ==
    CASE c = "+" -> BFIncrement(1)
      [] c = "-" -> BFIncrement(-1)
      [] c = ">" -> BFDataIncrement(1)
      [] c = "<" -> BFDataIncrement(-1)
      [] c = "," -> BFRead
      [] c = "." -> BFWrite

Returned(P) == [exited |-> FALSE, Program |-> P]

Exited(msg, pos) == [exited |-> TRUE, msg |-> msg, pos |-> pos]

\* The while loop of parseSourceBetween, entered at its test with the
\* locals I and Prog.  The value is what the call comes to: a returned
\* Program, or the message of the exit(EXIT_FAILURE) that ended the process.
RECURSIVE parseLoop(_, _, _, _)
parseLoop(Src, I, To, Prog) ==
    IF ~(I < To) THEN Returned(Prog)
    ELSE LET c == At(Src, I)
         IN  IF c \in SimpleMarkers
                 THEN parseLoop(Src, I + 1, To, Append(Prog, InstructionFor(c)))
             ELSE IF c = "["
                 THEN LET MatchingCloseIdx == findMatchingClose(Src, I)
                      IN  IF MatchingCloseIdx = -1
                              THEN Exited("Unmatched '['", I)
                          ELSE LET body == parseLoop(Src, I + 1, MatchingCloseIdx, <<>>)
                               IN  IF body.exited THEN body
                                   ELSE parseLoop(Src, MatchingCloseIdx + 1, To,
                                                  Append(Prog, BFLoop(body.Program)))
             ELSE IF c = "]"
                 THEN Exited("Unmatched ']'", I)
             ELSE parseLoop(Src, I + 1, To, Prog)

parseSourceBetween(Src, From, To) == parseLoop(Src, From, To, <<>>)

parseSource(Src) == parseSourceBetween(Src, 0, Len(Src))

----------------------------------------------------------------------------
\* The passes (src/src/optimisations.cpp)

\* BFInstPtr *Last = nullptr
nullptr == [type |-> "nullptr"]

\* The push of the pending instruction after the loop of a pass.
PushLast(Result, Last) == IF Last # nullptr THEN Append(Result, Last) ELSE Result

\* Variants of the passes that the claims about them must tell from the
\* passes themselves.

\* A prepend that leaves alone a Program that already starts with a BFSet.
markKnownZeroOnce(Sequence) ==
    IF Sequence # <<>> /\ Sequence[1].type = "BFSet" THEN Sequence
    ELSE <<BFSet(0)>> \o Sequence

\* A merge that adds a BFIncrement to a pending increment of either class.
RECURSIVE combineIncrementsMixedLoop(_, _, _, _)
combineIncrementsMixedLoop(Sequence, k, Result, Last) ==
    IF k > Len(Sequence) THEN PushLast(Result, Last)
    ELSE LET Current == Sequence[k]
         IN  IF Last = nullptr
                 THEN combineIncrementsMixedLoop(Sequence, k + 1, Result, Current)
             ELSE IF /\ Last.type \in {"BFIncrement", "BFDataIncrement"}
                     /\ Current.type = "BFIncrement"
                 THEN LET Sum == Current.Amount + Last.Amount
                      IN  IF Sum = 0
                              THEN combineIncrementsMixedLoop(Sequence, k + 1, Result, nullptr)
                          ELSE combineIncrementsMixedLoop(Sequence, k + 1, Result,
                                                          BFIncrement(Sum))
             ELSE combineIncrementsMixedLoop(Sequence, k + 1, Append(Result, Last), Current)

combineIncrementsMixed(Sequence) == combineIncrementsMixedLoop(Sequence, 1, <<>>, nullptr)

\* A merge that keeps the sum of a pair also when it is 0.
RECURSIVE combineIncrementsKeepZeroLoop(_, _, _, _)
combineIncrementsKeepZeroLoop(Sequence, k, Result, Last) ==
    IF k > Len(Sequence) THEN PushLast(Result, Last)
    ELSE LET Current == Sequence[k]
         IN  IF Last = nullptr
                 THEN combineIncrementsKeepZeroLoop(Sequence, k + 1, Result, Current)
             ELSE IF Last.type = "BFIncrement" /\ Current.type = "BFIncrement"
                 THEN combineIncrementsKeepZeroLoop(Sequence, k + 1, Result,
                          BFIncrement(Current.Amount + Last.Amount))
             ELSE combineIncrementsKeepZeroLoop(Sequence, k + 1, Append(Result, Last), Current)

combineIncrementsKeepZero(Sequence) ==
    combineIncrementsKeepZeroLoop(Sequence, 1, <<>>, nullptr)

\* A merge of BFDataIncrements that ends a run at a sum of 0, pushing
\* nothing and starting again at the instruction after the next.
RECURSIVE combineDataIncrementsSkipLoop(_, _, _, _)
combineDataIncrementsSkipLoop(Sequence, k, Result, Last) ==
    IF k > Len(Sequence) THEN PushLast(Result, Last)
    ELSE LET Current == Sequence[k]
         IN  IF Last = nullptr
                 THEN combineDataIncrementsSkipLoop(Sequence, k + 1, Result, Current)
             ELSE IF Last.type = "BFDataIncrement" /\ Current.type = "BFDataIncrement"
                 THEN LET Sum == Current.Amount + Last.Amount
                      IN  IF Sum = 0
                              THEN combineDataIncrementsSkipLoop(Sequence, k + 2, Result,
                                                                 nullptr)
                          ELSE combineDataIncrementsSkipLoop(Sequence, k + 1, Result,
                                                             BFDataIncrement(Sum))
             ELSE combineDataIncrementsSkipLoop(Sequence, k + 1, Append(Result, Last),
                                                Current)

combineDataIncrementsSkip(Sequence) ==
    combineDataIncrementsSkipLoop(Sequence, 1, <<>>, nullptr)

\* A merge of a BFSet with the one BFIncrement after it: the merged BFSet is
\* pushed at once and takes no further BFIncrement.
RECURSIVE combineSetAndIncrementsOnceLoop(_, _, _, _)
combineSetAndIncrementsOnceLoop(Sequence, k, Result, Last) ==
    IF k > Len(Sequence) THEN PushLast(Result, Last)
    ELSE LET Current == Sequence[k]
         IN  IF Last = nullptr
                 THEN combineSetAndIncrementsOnceLoop(Sequence, k + 1, Result, Current)
             ELSE IF Last.type = "BFSet" /\ Current.type = "BFIncrement"
                 THEN combineSetAndIncrementsOnceLoop(Sequence, k + 1,
                          Append(Result, BFSet(Last.Amount + Current.Amount)), nullptr)
             ELSE combineSetAndIncrementsOnceLoop(Sequence, k + 1, Append(Result, Last),
                                                  Current)

combineSetAndIncrementsOnce(Sequence) ==
    combineSetAndIncrementsOnceLoop(Sequence, 1, <<>>, nullptr)

markKnownZero(Sequence) == <<BFSet(0)>> \o Sequence

\* The range-for of combineIncrements at element k, with the locals Result
\* and Last.  A failed dynamic_cast of Last or of Current is the catch block.
RECURSIVE combineIncrementsLoop(_, _, _, _)
combineIncrementsLoop(Sequence, k, Result, Last) ==
    IF k > Len(Sequence) THEN PushLast(Result, Last)
    ELSE LET Current == Sequence[k]
         IN  IF Last = nullptr
                 THEN combineIncrementsLoop(Sequence, k + 1, Result, Current)
             ELSE IF Last.type = "BFIncrement" /\ Current.type = "BFIncrement"
                 THEN LET Sum == Current.Amount + Last.Amount
                      IN  IF Sum = 0
                              THEN combineIncrementsLoop(Sequence, k + 1, Result, nullptr)
                          ELSE combineIncrementsLoop(Sequence, k + 1, Result, BFIncrement(Sum))
             ELSE combineIncrementsLoop(Sequence, k + 1, Append(Result, Last), Current)

combineIncrements(Sequence) == combineIncrementsLoop(Sequence, 1, <<>>, nullptr)

RECURSIVE combineDataIncrementsLoop(_, _, _, _)
combineDataIncrementsLoop(Sequence, k, Result, Last) ==
    IF k > Len(Sequence) THEN PushLast(Result, Last)
    ELSE LET Current == Sequence[k]
         IN  IF Last = nullptr
                 THEN combineDataIncrementsLoop(Sequence, k + 1, Result, Current)
             ELSE IF Last.type = "BFDataIncrement" /\ Current.type = "BFDataIncrement"
                 THEN LET Sum == Current.Amount + Last.Amount
                      IN  IF Sum = 0
                              THEN combineDataIncrementsLoop(Sequence, k + 1, Result, nullptr)
                          ELSE combineDataIncrementsLoop(Sequence, k + 1, Result,
                                                         BFDataIncrement(Sum))
             ELSE combineDataIncrementsLoop(Sequence, k + 1, Append(Result, Last), Current)

combineDataIncrements(Sequence) == combineDataIncrementsLoop(Sequence, 1, <<>>, nullptr)

RECURSIVE combineSetAndIncrementsLoop(_, _, _, _)
combineSetAndIncrementsLoop(Sequence, k, Result, Last) ==
    IF k > Len(Sequence) THEN PushLast(Result, Last)
    ELSE LET Current == Sequence[k]
         IN  IF Last = nullptr
                 THEN combineSetAndIncrementsLoop(Sequence, k + 1, Result, Current)
             ELSE IF Last.type = "BFSet" /\ Current.type = "BFIncrement"
                 THEN LET Sum == Last.Amount + Current.Amount
                      IN  combineSetAndIncrementsLoop(Sequence, k + 1, Result, BFSet(Sum))
             ELSE combineSetAndIncrementsLoop(Sequence, k + 1, Append(Result, Last), Current)

combineSetAndIncrements(Sequence) == combineSetAndIncrementsLoop(Sequence, 1, <<>>, nullptr)

\* A merge of adjacent sets that keeps the earlier one.
combineSetsKeepFirst(Sequence) ==
    LET Kept(k) == k = 1 \/ ~(Sequence[k - 1].type = "BFSet" /\ Sequence[k].type = "BFSet")
        places == {k \in 1..Len(Sequence) : Kept(k)}
        RECURSIVE Pick(_)
        Pick(k) == IF k > Len(Sequence) THEN <<>>
                   ELSE (IF k \in places THEN <<Sequence[k]>> ELSE <<>>) \o Pick(k + 1)
    IN  Pick(1)

RECURSIVE combineSetsLoop(_, _, _, _)
combineSetsLoop(Sequence, k, Result, Last) ==
    IF k > Len(Sequence) THEN PushLast(Result, Last)
    ELSE LET Current == Sequence[k]
         IN  IF Last = nullptr
                 THEN combineSetsLoop(Sequence, k + 1, Result, Current)
             ELSE IF Last.type = "BFSet" /\ Current.type = "BFSet"
                 THEN combineSetsLoop(Sequence, k + 1, Result, Current)
             ELSE combineSetsLoop(Sequence, k + 1, Append(Result, Last), Current)

combineSets(Sequence) == combineSetsLoop(Sequence, 1, <<>>, nullptr)

ZeroingLoopBody == <<BFIncrement(-1)>>

\* A rewrite of every loop whose body starts with BFIncrement(-1).
simplifyZeroingLoopInstByHead(Current) ==
    IF Current.type = "BFLoop"
        THEN IF Current.LoopBody # <<>> /\ Current.LoopBody[1] = BFIncrement(-1)
                 THEN BFSet(0)
             ELSE Current
    ELSE Current

\* A rewrite that also goes into the bodies of the loops it keeps.
RECURSIVE simplifyZeroingLoopInstDeep(_)
simplifyZeroingLoopInstDeep(Current) ==
    IF Current.type = "BFLoop"
        THEN IF ProgEq(Current.LoopBody, ZeroingLoopBody) THEN BFSet(0)
             ELSE BFLoop([k \in 1..Len(Current.LoopBody) |->
                              simplifyZeroingLoopInstDeep(Current.LoopBody[k])])
    ELSE Current

\* The body of the range-for of simplifyZeroingLoop: what is pushed for Current.
simplifyZeroingLoopInst(Current) ==
    IF Current.type = "BFLoop"
        THEN IF ProgEq(Current.LoopBody, ZeroingLoopBody) THEN BFSet(0) ELSE Current
    ELSE Current

simplifyZeroingLoop(Sequence) ==
    [k \in 1..Len(Sequence) |-> simplifyZeroingLoopInst(Sequence[k])]

applyAllPasses(InitialProgram) ==
    combineSetAndIncrements(
        simplifyZeroingLoop(
            combineSets(
                markKnownZero(
                    combineDataIncrements(
                        combineIncrements(InitialProgram))))))

----------------------------------------------------------------------------
\* Lowering to basic blocks (src/src/bfir.cpp)
\*
\* A Function is the sequence of its basic blocks in creation order; a
\* BasicBlock* is an index into it.  A block is the sequence of the
\* instructions the IRBuilder appended to it.  The Value* locals of the C++
\* code are the register names.

NUM_CELLS == 30000

CELL_SIZE_IN_BYTES == 1

\* A value cut to a width: an i8 is kept as its unsigned value 0..255, an
\* i32 as its signed value (the integers of the checker are 32 bits wide).
Cut(bits, value) == IF bits >= 32 THEN value ELSE value % (2 ^ bits)

\* ConstantInt::get(Context, APInt(bits, value))
ConstantInt(bits, value) == [bits |-> bits, val |-> Cut(bits, value)]

Reg(name) == [reg |-> name]

\* BasicBlock::Create(Context, name, &F)
CreateBlock(F, name) == Append(F, [name |-> name, insts |-> <<>>])

\* An IRBuilder whose insert point is the end of block BB creates inst.
Emit(F, BB, inst) == [F EXCEPT ![BB].insts = Append(@, inst)]

RECURSIVE EmitAll(_, _, _)
EmitAll(F, BB, insts) ==
    IF insts = <<>> THEN F ELSE EmitAll(Emit(F, BB, Head(insts)), BB, Tail(insts))

CreateLoad(dst, ptr) == [op |-> "load", dst |-> dst, ptr |-> ptr]

CreateGEP(dst, base, index) == [op |-> "gep", dst |-> dst, base |-> base, index |-> index]

CreateAdd(dst, lhs, rhs) == [op |-> "add", dst |-> dst, lhs |-> lhs, rhs |-> rhs]

CreateStore(val, ptr) == [op |-> "store", val |-> val, ptr |-> ptr]

CreateCall(dst, callee, args) == [op |-> "call", dst |-> dst, callee |-> callee, args |-> args]

CreateTrunc(dst, src, bits) == [op |-> "trunc", dst |-> dst, src |-> src, bits |-> bits]

CreateSExt(dst, src, bits) == [op |-> "sext", dst |-> dst, src |-> src, bits |-> bits]

CreateICmpEQ(dst, lhs, rhs) == [op |-> "icmp_eq", dst |-> dst, lhs |-> lhs, rhs |-> rhs]

CreateAlloca(dst, bits) == [op |-> "alloca", dst |-> dst, bits |-> bits]

CreateBr(dest) == [op |-> "br", dest |-> dest]

CreateCondBr(cond, ifTrue, ifFalse) ==
    [op |-> "condbr", cond |-> cond, ifTrue |-> ifTrue, ifFalse |-> ifFalse]

CreateRet(val) == [op |-> "ret", val |-> val]

\* The loads that open every compile method: the cell index, and the
\* address of the current cell.
LoadCurrentCellPtr ==
    << CreateLoad("CellIndex", Reg("CellIndexPtr")),
       CreateGEP("CurrentCellPtr", Reg("CellsPtr"), Reg("CellIndex")) >>

BFIncrementInsts(Amount) ==
    LoadCurrentCellPtr \o
    << CreateLoad("CellVal", Reg("CurrentCellPtr")),
       CreateAdd("NewCellVal", Reg("CellVal"), ConstantInt(CELL_SIZE_IN_BYTES * 8, Amount)),
       CreateStore(Reg("NewCellVal"), Reg("CurrentCellPtr")) >>

BFDataIncrementInsts(Amount) ==
    << CreateLoad("CellIndex", Reg("CellIndexPtr")),
       CreateAdd("NewCellIndex", Reg("CellIndex"), ConstantInt(32, Amount)),
       CreateStore(Reg("NewCellIndex"), Reg("CellIndexPtr")) >>

BFReadInsts ==
    LoadCurrentCellPtr \o
    << CreateCall("InputChar", "getchar", <<>>),
       CreateTrunc("InputByte", Reg("InputChar"), 8),
       CreateStore(Reg("InputByte"), Reg("CurrentCellPtr")) >>

\* A BFWrite::compile that ends the block it writes into with a branch.
BFWriteInstsThenBranch ==
    LoadCurrentCellPtr \o
    << CreateLoad("CellVal", Reg("CurrentCellPtr")),
       CreateSExt("CellValAsChar", Reg("CellVal"), 32),
       CreateCall("", "putchar", <<Reg("CellValAsChar")>>),
       CreateBr(1) >>

BFWriteInsts ==
    LoadCurrentCellPtr \o
    << CreateLoad("CellVal", Reg("CurrentCellPtr")),
       CreateSExt("CellValAsChar", Reg("CellVal"), 32),
       CreateCall("", "putchar", <<Reg("CellValAsChar")>>) >>

\* BFSet::compile is not among the sources: the current cell is assigned the
\* value, as a straight-line store into the current block.
BFSetInsts(Amount) ==
    LoadCurrentCellPtr \o
    << CreateStore(ConstantInt(CELL_SIZE_IN_BYTES * 8, Amount), Reg("CurrentCellPtr")) >>

\* A header whose branch goes to the body when the cell is zero.
LoopHeaderInstsSwapped(LoopAfter, LoopBodyBlock) ==
    LoadCurrentCellPtr \o
    << CreateLoad("CellVal", Reg("CurrentCellPtr")),
       CreateICmpEQ("CellValIsZero", Reg("CellVal"), ConstantInt(CELL_SIZE_IN_BYTES * 8, 0)),
       CreateCondBr(Reg("CellValIsZero"), LoopBodyBlock, LoopAfter) >>

LoopHeaderInsts(LoopAfter, LoopBodyBlock) ==
    LoadCurrentCellPtr \o
    << CreateLoad("CellVal", Reg("CurrentCellPtr")),
       CreateICmpEQ("CellValIsZero", Reg("CellVal"), ConstantInt(CELL_SIZE_IN_BYTES * 8, 0)),
       CreateCondBr(Reg("CellValIsZero"), LoopAfter, LoopBodyBlock) >>

Compiled(F, BB) == [F |-> F, BB |-> BB]

\* Inst.compile(Mod, F, BB): the function with the instruction lowered into
\* it, and the block to append to next.  compileAll is the loop
\* "BB = (*I)->compile(Mod, F, *BB)" over a program from element k on.
RECURSIVE compile(_, _, _), compileAll(_, _, _, _)
\* A BFLoop::compile whose body ends with a branch to the body, not to the
\* header.
compileBackToBody(Inst, F, BB) ==
    IF Inst.type # "BFLoop"
        THEN Compiled(EmitAll(F, BB,
                 CASE Inst.type = "BFIncrement" -> BFIncrementInsts(Inst.Amount)
                   [] Inst.type = "BFDataIncrement" -> BFDataIncrementInsts(Inst.Amount)
                   [] Inst.type = "BFRead" -> BFReadInsts
                   [] Inst.type = "BFWrite" -> BFWriteInsts
                   [] Inst.type = "BFSet" -> BFSetInsts(Inst.Amount)), BB)
    ELSE
        LET F1 == CreateBlock(F, "loop_header")
            LoopHeader == Len(F1)
            F2 == Emit(F1, BB, CreateBr(LoopHeader))
            F3 == CreateBlock(F2, "loop_body")
            LoopBodyBlock == Len(F3)
            F4 == CreateBlock(F3, "loop_after")
            LoopAfter == Len(F4)
            F5 == EmitAll(F4, LoopHeader, LoopHeaderInsts(LoopAfter, LoopBodyBlock))
            body == compileAll(Inst.LoopBody, 1, F5, LoopBodyBlock)
            F6 == Emit(body.F, body.BB, CreateBr(LoopBodyBlock))
        IN  Compiled(F6, LoopAfter)

compile(Inst, F, BB) ==
    IF Inst.type = "BFIncrement"
        THEN Compiled(EmitAll(F, BB, BFIncrementInsts(Inst.Amount)), BB)
    ELSE IF Inst.type = "BFDataIncrement"
        THEN Compiled(EmitAll(F, BB, BFDataIncrementInsts(Inst.Amount)), BB)
    ELSE IF Inst.type = "BFRead"
        THEN Compiled(EmitAll(F, BB, BFReadInsts), BB)
    ELSE IF Inst.type = "BFWrite"
        THEN Compiled(EmitAll(F, BB, BFWriteInsts), BB)
    ELSE IF Inst.type = "BFSet"
        THEN Compiled(EmitAll(F, BB, BFSetInsts(Inst.Amount)), BB)
    ELSE \* BFLoop::compile
        LET F1 == CreateBlock(F, "loop_header")
            LoopHeader == Len(F1)
            F2 == Emit(F1, BB, CreateBr(LoopHeader))
            F3 == CreateBlock(F2, "loop_body")
            LoopBodyBlock == Len(F3)
            F4 == CreateBlock(F3, "loop_after")
            LoopAfter == Len(F4)
            F5 == EmitAll(F4, LoopHeader, LoopHeaderInsts(LoopAfter, LoopBodyBlock))
            body == compileAll(Inst.LoopBody, 1, F5, LoopBodyBlock)
            F6 == Emit(body.F, body.BB, CreateBr(LoopHeader))
        IN  Compiled(F6, LoopAfter)

compileAll(Prog, k, F, BB) ==
    IF k > Len(Prog) THEN Compiled(F, BB)
    ELSE LET c == compile(Prog[k], F, BB)
         IN  compileAll(Prog, k + 1, c.F, c.BB)

addCellsInit(F, BB) ==
    EmitAll(F, BB,
        << CreateCall("CellsPtr", "calloc",
                      <<ConstantInt(32, NUM_CELLS), ConstantInt(32, CELL_SIZE_IN_BYTES)>>),
           CreateAlloca("CellIndexPtr", 32),
           CreateStore(ConstantInt(32, 0), Reg("CellIndexPtr")) >>)

addCellsCleanup(F, BB) ==
    EmitAll(F, BB,
        << CreateCall("", "free", <<Reg("CellsPtr")>>),
           CreateRet(ConstantInt(32, 0)) >>)

\* compileProgram: the function "main" of the module it returns.
compileProgram(Prog) ==
    LET Func == CreateBlock(<<>>, "entry")
        BB == Len(Func)
        lowered == compileAll(Prog, 1, addCellsInit(Func, BB), BB)
    IN  addCellsCleanup(lowered.F, lowered.BB)

----------------------------------------------------------------------------
\* The tape.  NUM_CELLS zeroed bytes (calloc in the lowered code, "= {}" in
\* the interpreter) are kept as the function from the indices of the
\* non-zero cells to their bytes.

ZeroedCells == [i \in {} |-> 0]

CellAt(cells, i) == IF i \in DOMAIN cells THEN cells[i] ELSE 0

CellPut(cells, i, byte) ==
    IF byte = 0
        THEN [j \in DOMAIN cells \ {i} |-> cells[j]]
    ELSE [j \in DOMAIN cells \cup {i} |-> IF j = i THEN byte ELSE cells[j]]

InTape(i) == 0 <= i /\ i < NUM_CELLS

\* getchar() on a stdin holding the bytes of Inp, pos of them consumed
EOF == -1

getchar(Inp, pos) == IF pos < Len(Inp) THEN Inp[pos + 1] ELSE EOF

----------------------------------------------------------------------------
\* Running the lowered function: the meaning of the instructions that the
\* compile methods of src/src/bfir.cpp emit.  A machine m holds the block
\* being run (pc), the tape (cells), the i32 behind CellIndexPtr (CellIndex),
\* the registers that live across blocks (regs), the count of consumed input
\* bytes (inpos), the bytes written (out) and status: "running", "returned",
\* or "undefined" after a load or store outside the tape.

Operand(regs, x) == IF "reg" \in DOMAIN x THEN regs[x.reg] ELSE x.val

CellsBase == [base |-> "cells", off |-> 0]

CellIndexSlot == [base |-> "cell_index", off |-> 0]

\* One instruction: the machine after it, the registers after it.
ExecInst(inst, m, regs, Inp) ==
    CASE inst.op = "call" /\ inst.callee = "calloc" ->
             [m |-> [m EXCEPT !.cells = ZeroedCells], regs |-> (inst.dst :> CellsBase) @@ regs]
      [] inst.op = "alloca" ->
             [m |-> m, regs |-> (inst.dst :> CellIndexSlot) @@ regs]
      [] inst.op = "load" ->
             LET p == Operand(regs, inst.ptr)
             IN  IF p.base = "cell_index"
                     THEN [m |-> m, regs |-> (inst.dst :> m.CellIndex) @@ regs]
                 ELSE IF InTape(p.off)
                     THEN [m |-> m, regs |-> (inst.dst :> CellAt(m.cells, p.off)) @@ regs]
                 ELSE [m |-> [m EXCEPT !.status = "undefined"], regs |-> regs]
      [] inst.op = "store" ->
             LET p == Operand(regs, inst.ptr)
                 v == Operand(regs, inst.val)
             IN  IF p.base = "cell_index"
                     THEN [m |-> [m EXCEPT !.CellIndex = v], regs |-> regs]
                 ELSE IF InTape(p.off)
                     THEN [m |-> [m EXCEPT !.cells = CellPut(@, p.off, v)], regs |-> regs]
                 ELSE [m |-> [m EXCEPT !.status = "undefined"], regs |-> regs]
      [] inst.op = "gep" ->
             LET b == Operand(regs, inst.base)
             IN  [m |-> m,
                  regs |-> (inst.dst :> [b EXCEPT !.off = @ + Operand(regs, inst.index)]) @@ regs]
      [] inst.op = "add" ->
             [m |-> m,
              regs |-> (inst.dst :> Cut(inst.rhs.bits, Operand(regs, inst.lhs) + inst.rhs.val))
                       @@ regs]
      [] inst.op = "trunc" ->
             [m |-> m, regs |-> (inst.dst :> Cut(inst.bits, Operand(regs, inst.src))) @@ regs]
      [] inst.op = "sext" ->
             LET v == Operand(regs, inst.src)
             IN  [m |-> m, regs |-> (inst.dst :> IF v >= 128 THEN v - 256 ELSE v) @@ regs]
      [] inst.op = "icmp_eq" ->
             [m |-> m, regs |-> (inst.dst :> (Operand(regs, inst.lhs) = inst.rhs.val)) @@ regs]
      [] inst.op = "call" /\ inst.callee = "getchar" ->
             [m |-> [m EXCEPT !.inpos = IF @ < Len(Inp) THEN @ + 1 ELSE @],
              regs |-> (inst.dst :> getchar(Inp, m.inpos)) @@ regs]
      [] inst.op = "call" /\ inst.callee = "putchar" ->
             [m |-> [m EXCEPT !.out = Append(@, Operand(regs, inst.args[1]) % 256)],
              regs |-> regs]
      [] inst.op = "call" /\ inst.callee = "free" ->
             [m |-> m, regs |-> regs]
      [] inst.op = "br" ->
             [m |-> [m EXCEPT !.pc = inst.dest], regs |-> regs]
      [] inst.op = "condbr" ->
             [m |-> [m EXCEPT !.pc = IF Operand(regs, inst.cond) THEN inst.ifTrue
                                     ELSE inst.ifFalse],
              regs |-> regs]
      [] inst.op = "ret" ->
             [m |-> [m EXCEPT !.status = "returned"], regs |-> regs]

\* The registers that are read in a block other than the one that sets
\* them: the globals CellsPtr and CellIndexPtr of bfir.cpp.
Globals(regs) == [n \in DOMAIN regs \cap {"CellsPtr", "CellIndexPtr"} |-> regs[n]]

\* The instructions of a block from the k-th on.
RECURSIVE ExecInsts(_, _, _, _, _)
ExecInsts(insts, k, m, regs, Inp) ==
    IF k > Len(insts) \/ m.status # "running"
        THEN [m EXCEPT !.regs = Globals(regs)]
    ELSE LET r == ExecInst(insts[k], m, regs, Inp)
         IN  ExecInsts(insts, k + 1, r.m, r.regs, Inp)

\* The machine at the start of main.
EntryMachine ==
    [pc |-> 1, cells |-> ZeroedCells, CellIndex |-> 0, regs |-> [n \in {} |-> 0],
     inpos |-> 0, out |-> <<>>, status |-> "running", steps |-> 0]

\* One basic block of function F, from its first instruction to its terminator.
ExecBlock(F, m, Inp) ==
    ExecInsts(F[m.pc].insts, 1, [m EXCEPT !.steps = @ + 1], m.regs, Inp)

----------------------------------------------------------------------------
\* The reference interpreter (src/c/main.c)

NotWellBracketed == -1

\* find_close_index: the for loop at index i with the local depth; the
\* failed assert(false) after the loop is NotWellBracketed.
RECURSIVE find_close_index_loop(_, _, _, _)
find_close_index_loop(program, program_len, i, depth) ==
    IF ~(i < program_len) THEN NotWellBracketed
    ELSE LET c == At(program, i)
         IN  IF c = "[" THEN find_close_index_loop(program, program_len, i + 1, depth + 1)
             ELSE IF c = "]"
                 THEN IF depth = 0 THEN i
                      ELSE find_close_index_loop(program, program_len, i + 1, depth - 1)
             ELSE find_close_index_loop(program, program_len, i + 1, depth)

find_close_index(program, program_len, open_index) ==
    find_close_index_loop(program, program_len, open_index + 1, 0)

RECURSIVE find_open_index_loop(_, _, _, _)
find_open_index_loop(program, program_len, close_index, i) ==
    IF ~(i < close_index) THEN NotWellBracketed
    ELSE IF At(program, i) = "["
             /\ find_close_index(program, program_len, i) = close_index
        THEN i
    ELSE find_open_index_loop(program, program_len, close_index, i + 1)

find_open_index(program, program_len, close_index) ==
    find_open_index_loop(program, program_len, close_index, 0)

\* "cells[data_index] > 0" on a char holding byte: char is signed or
\* unsigned as the platform has it.
CharPositive(byte, signed) == IF signed THEN 1 <= byte /\ byte <= 127 ELSE byte # 0

\* The interpreter at the start of eval_program.
EvalStart ==
    [instruction_index |-> 0, data_index |-> 0, cells |-> ZeroedCells,
     inpos |-> 0, out |-> <<>>, status |-> "running", steps |-> 0]

\* One turn of the while loop of eval_program on e.  status becomes
\* "aborted" by a failed assert.
\* An eval_program whose case '<' has no assert.
EvalTurnUnasserted(program, e0, Inp, signed) ==
    LET e == [e0 EXCEPT !.steps = @ + 1]
        program_len == Len(program)
        c == At(program, e.instruction_index)
        cell == CellAt(e.cells, e.data_index)
    IN  CASE c = ">" ->
                 IF e.data_index + 1 < NUM_CELLS
                     THEN [e EXCEPT !.data_index = @ + 1, !.instruction_index = @ + 1]
                 ELSE [e EXCEPT !.data_index = @ + 1, !.status = "aborted"]
          [] c = "<" ->
                 [e EXCEPT !.data_index = @ - 1, !.instruction_index = @ + 1]
          [] c = "+" ->
                 [e EXCEPT !.cells = CellPut(@, e.data_index, (cell + 1) % 256),
                           !.instruction_index = @ + 1]
          [] c = "-" ->
                 [e EXCEPT !.cells = CellPut(@, e.data_index, (cell - 1) % 256),
                           !.instruction_index = @ + 1]
          [] c = "." ->
                 [e EXCEPT !.out = Append(@, cell), !.instruction_index = @ + 1]
          [] c = "," ->
                 [e EXCEPT !.cells = CellPut(@, e.data_index, getchar(Inp, e.inpos) % 256),
                           !.inpos = IF @ < Len(Inp) THEN @ + 1 ELSE @,
                           !.instruction_index = @ + 1]
          [] c = "[" ->
                 IF CharPositive(cell, signed)
                     THEN [e EXCEPT !.instruction_index = @ + 1]
                 ELSE LET close == find_close_index(program, program_len, e.instruction_index)
                      IN  IF close = NotWellBracketed THEN [e EXCEPT !.status = "aborted"]
                          ELSE [e EXCEPT !.instruction_index = close + 1]
          [] c = "]" ->
                 LET open == find_open_index(program, program_len, e.instruction_index)
                 IN  IF open = NotWellBracketed THEN [e EXCEPT !.status = "aborted"]
                     ELSE [e EXCEPT !.instruction_index = open]
          [] OTHER -> [e EXCEPT !.instruction_index = @ + 1]

EvalTurn(program, e0, Inp, signed) ==
    LET e == [e0 EXCEPT !.steps = @ + 1]
        program_len == Len(program)
        c == At(program, e.instruction_index)
        cell == CellAt(e.cells, e.data_index)
    IN  CASE c = ">" ->
                 IF e.data_index + 1 < NUM_CELLS
                     THEN [e EXCEPT !.data_index = @ + 1, !.instruction_index = @ + 1]
                 ELSE [e EXCEPT !.data_index = @ + 1, !.status = "aborted"]
          [] c = "<" ->
                 IF e.data_index > 0
                     THEN [e EXCEPT !.data_index = @ - 1, !.instruction_index = @ + 1]
                 ELSE [e EXCEPT !.status = "aborted"]
          [] c = "+" ->
                 [e EXCEPT !.cells = CellPut(@, e.data_index, (cell + 1) % 256),
                           !.instruction_index = @ + 1]
          [] c = "-" ->
                 [e EXCEPT !.cells = CellPut(@, e.data_index, (cell - 1) % 256),
                           !.instruction_index = @ + 1]
          [] c = "." ->
                 [e EXCEPT !.out = Append(@, cell), !.instruction_index = @ + 1]
          [] c = "," ->
                 [e EXCEPT !.cells = CellPut(@, e.data_index, getchar(Inp, e.inpos) % 256),
                           !.inpos = IF @ < Len(Inp) THEN @ + 1 ELSE @,
                           !.instruction_index = @ + 1]
          [] c = "[" ->
                 IF CharPositive(cell, signed)
                     THEN [e EXCEPT !.instruction_index = @ + 1]
                 ELSE LET close == find_close_index(program, program_len, e.instruction_index)
                      IN  IF close = NotWellBracketed THEN [e EXCEPT !.status = "aborted"]
                          ELSE [e EXCEPT !.instruction_index = close + 1]
          [] c = "]" ->
                 LET open == find_open_index(program, program_len, e.instruction_index)
                 IN  IF open = NotWellBracketed THEN [e EXCEPT !.status = "aborted"]
                     ELSE [e EXCEPT !.instruction_index = open]
          [] OTHER -> [e EXCEPT !.instruction_index = @ + 1]

----------------------------------------------------------------------------
\* The parser step by step: one action per turn of the while loop of the
\* innermost activation of parseSourceBetween.

NoErr == [msg |-> "", pos |-> -1]

\* An activation of parseSourceBetween(Source, From, To) with its locals.
Frame(From, To) ==
    [From |-> From, To |-> To, I |-> From, Program |-> <<>>, MatchingCloseIdx |-> -1]

Top == Stack[Len(Stack)]

SetTop(f) == [Stack EXCEPT ![Len(Stack)] = f]

Scanning == stage = "parse" /\ Stack # <<>> /\ Top.I < Top.To

\* case '+', '-', '>', '<', ',', '.': push the instruction, ++I.
ParseSimple ==
    /\ Scanning
    /\ At(Source, Top.I) \in SimpleMarkers
    /\ Stack' = SetTop([Top EXCEPT !.Program = Append(@, InstructionFor(At(Source, Top.I))),
                                   !.I = @ + 1])
    /\ UNCHANGED <<Source, stage, Err, Original, Program, runVars, eqVars, heapVars>>

\* A default case that leaves the switch and the turn without ++I.
ParseCommentStuck ==
    /\ Scanning
    /\ At(Source, Top.I) \notin SimpleMarkers \cup {"[", "]"}
    /\ UNCHANGED <<Source, Stack, stage, Err, Original, Program, runVars, eqVars, heapVars>>

\* default: skip comments, ++I.
ParseComment ==
    /\ Scanning
    /\ At(Source, Top.I) \notin SimpleMarkers \cup {"[", "]"}
    /\ Stack' = SetTop([Top EXCEPT !.I = @ + 1])
    /\ UNCHANGED <<Source, stage, Err, Original, Program, runVars, eqVars, heapVars>>

\* A case '[' that reports where the matcher gave up, not where the '[' is.
ParseOpenReportsEnd ==
    /\ Scanning
    /\ At(Source, Top.I) = "["
    /\ LET MatchingCloseIdx == findMatchingClose(Source, Top.I)
       IN  IF MatchingCloseIdx = -1
               THEN /\ Err' = [msg |-> "Unmatched '['", pos |-> Len(Source)]
                    /\ stage' = "exit"
                    /\ UNCHANGED Stack
           ELSE /\ Stack' = Append(SetTop([Top EXCEPT !.MatchingCloseIdx = MatchingCloseIdx]),
                                   Frame(Top.I + 1, MatchingCloseIdx))
                /\ UNCHANGED <<Err, stage>>
    /\ UNCHANGED <<Source, Original, Program, runVars, eqVars, heapVars>>

\* case '[': exit when there is no match, else call parseSourceBetween on
\* the characters between the brackets.
ParseOpen ==
    /\ Scanning
    /\ At(Source, Top.I) = "["
    /\ LET MatchingCloseIdx == findMatchingClose(Source, Top.I)
       IN  IF MatchingCloseIdx = -1
               THEN /\ Err' = [msg |-> "Unmatched '['", pos |-> Top.I]
                    /\ stage' = "exit"
                    /\ UNCHANGED Stack
           ELSE /\ Stack' = Append(SetTop([Top EXCEPT !.MatchingCloseIdx = MatchingCloseIdx]),
                                   Frame(Top.I + 1, MatchingCloseIdx))
                /\ UNCHANGED <<Err, stage>>
    /\ UNCHANGED <<Source, Original, Program, runVars, eqVars, heapVars>>

\* A case ']' that falls into the default case: the ']' is skipped.
ParseCloseSkips ==
    /\ Scanning
    /\ At(Source, Top.I) = "]"
    /\ Stack' = SetTop([Top EXCEPT !.I = @ + 1])
    /\ UNCHANGED <<Source, stage, Err, Original, Program, runVars, eqVars, heapVars>>

\* A case ']' that reports the start of the range it was scanning.
ParseCloseReportsFrom ==
    /\ Scanning
    /\ At(Source, Top.I) = "]"
    /\ Err' = [msg |-> "Unmatched ']'", pos |-> Top.From]
    /\ stage' = "exit"
    /\ UNCHANGED <<Source, Stack, Original, Program, runVars, eqVars, heapVars>>

\* case ']': exit.
ParseClose ==
    /\ Scanning
    /\ At(Source, Top.I) = "]"
    /\ Err' = [msg |-> "Unmatched ']'", pos |-> Top.I]
    /\ stage' = "exit"
    /\ UNCHANGED <<Source, Stack, Original, Program, runVars, eqVars, heapVars>>

\* A return after which the caller goes on at the ']' itself.
ParseReturnAtClose ==
    /\ stage = "parse" /\ Stack # <<>> /\ ~(Top.I < Top.To)
    /\ IF Len(Stack) > 1
           THEN LET caller == Stack[Len(Stack) - 1]
                    resumed == [caller EXCEPT !.Program = Append(@, BFLoop(Top.Program)),
                                              !.I = caller.MatchingCloseIdx]
                IN  /\ Stack' = Append(SubSeq(Stack, 1, Len(Stack) - 2), resumed)
                    /\ UNCHANGED <<stage, Original, Program>>
       ELSE /\ Stack' = <<>>
            /\ Original' = Top.Program
            /\ Program' = Top.Program
            /\ stage' = "parsed"
    /\ UNCHANGED <<Source, Err, runVars, eqVars, heapVars>>

\* return Program: to the case '[' of the caller, which wraps it in a
\* BFLoop, pushes it, sets I = MatchingCloseIdx and does ++I; or, from the
\* outermost activation, to the caller of parseSource.
ParseReturn ==
    /\ stage = "parse" /\ Stack # <<>> /\ ~(Top.I < Top.To)
    /\ IF Len(Stack) > 1
           THEN LET caller == Stack[Len(Stack) - 1]
                    resumed == [caller EXCEPT !.Program = Append(@, BFLoop(Top.Program)),
                                              !.I = caller.MatchingCloseIdx + 1]
                IN  /\ Stack' = Append(SubSeq(Stack, 1, Len(Stack) - 2), resumed)
                    /\ UNCHANGED <<stage, Original, Program>>
       ELSE /\ Stack' = <<>>
            /\ Original' = Top.Program
            /\ Program' = Top.Program
            /\ stage' = "parsed"
    /\ UNCHANGED <<Source, Err, runVars, eqVars, heapVars>>

Parse == ParseSimple \/ ParseComment \/ ParseOpen \/ ParseClose \/ ParseReturn

----------------------------------------------------------------------------
\* applyAllPasses, one action per statement (src/src/optimisations.cpp)

PassStep(from, to, result) ==
    /\ stage = from
    /\ Program' = result
    /\ stage' = to
    /\ UNCHANGED <<Source, Stack, Err, Original, runVars, eqVars, heapVars>>

RunCombineIncrements == PassStep("parsed", "pass1", combineIncrements(Program))

RunCombineDataIncrements == PassStep("pass1", "pass2", combineDataIncrements(Program))

RunMarkKnownZero == PassStep("pass2", "pass3", markKnownZero(Program))

RunCombineSets == PassStep("pass3", "pass4", combineSets(Program))

\* The fifth statement of applyAllPasses without its call.
RunSimplifyZeroingLoopSkipped == PassStep("pass4", "pass5", Program)

RunSimplifyZeroingLoop == PassStep("pass4", "pass5", simplifyZeroingLoop(Program))

RunCombineSetAndIncrements == PassStep("pass5", "optimised", combineSetAndIncrements(Program))

ApplyAllPasses ==
    \/ RunCombineIncrements
    \/ RunCombineDataIncrements
    \/ RunMarkKnownZero
    \/ RunCombineSets
    \/ RunSimplifyZeroingLoop
    \/ RunCombineSetAndIncrements

----------------------------------------------------------------------------
\* compileProgram on the Program, as parsed or as optimised

CompileProgram ==
    /\ stage \in {"parsed", "optimised"}
    /\ Main' = compileProgram(Program)
    /\ run' = EntryMachine
    /\ stage' = "compiled"
    /\ UNCHANGED <<Source, Stack, Err, Original, Program, Input, charSigned, ev, eqVars, heapVars>>

----------------------------------------------------------------------------
\* The compiler: parseSource, applyAllPasses, compileProgram

NoFunc == <<>>

Idle == [status |-> "idle"]

NoVerdict == [of |-> "nothing"]

\* Nothing has been run yet.
IdleRuns == Main = NoFunc /\ run = Idle /\ ev = Idle

\* Nothing has been compared yet.
IdleCompare == ProgX = <<>> /\ ProgY = <<>> /\ Verdict = NoVerdict

\* No pass has been called on a BFProgram in memory.
IdleHeap == Heap = <<>> /\ Arg = <<>> /\ Ret = <<>>

\* parseSource(Source) has just been called.
InitCompiler ==
    /\ stage = "parse"
    /\ Stack = <<Frame(0, Len(Source))>>
    /\ Err = NoErr
    /\ Original = <<>>
    /\ Program = <<>>

Init ==
    /\ Source \in Sources
    /\ Input = <<>>
    /\ charSigned = TRUE
    /\ InitCompiler
    /\ IdleRuns
    /\ IdleCompare
    /\ IdleHeap

Next ==
    \/ Parse
    \/ ApplyAllPasses
    \/ CompileProgram

Spec == Init /\ [][Next]_vars

----------------------------------------------------------------------------
\* What the claims about the parser are stated with: brackets counted
\* directly on the text.

\* The number of c among the characters lo..hi of S (0-based, inclusive).
Count(S, c, lo, hi) == Cardinality({i \in lo..hi : At(S, i) = c})

\* '[' minus ']' over the characters lo..hi of S.
Depth(S, lo, hi) == Count(S, "[", lo, hi) - Count(S, "]", lo, hi)

Balanced(S) ==
    /\ \A k \in 0..(Len(S) - 1) : Depth(S, 0, k) >= 0
    /\ Depth(S, 0, Len(S) - 1) = 0

\* The least j > i where the depth counted from i is back to 0, or -1.
RefMatch(S, i) ==
    LET back == {j \in (i + 1)..(Len(S) - 1) : Depth(S, i, j) = 0}
    IN  IF back = {} THEN -1 ELSE CHOOSE j \in back : \A k \in back : j <= k

\* The least index at which more ']' than '[' have been read, or -1.
FirstDip(S) ==
    LET dips == {p \in 0..(Len(S) - 1) : Depth(S, 0, p) < 0}
    IN  IF dips = {} THEN -1 ELSE CHOOSE p \in dips : \A q \in dips : p <= q

IsBracket(c) == c \in {"[", "]"}

IsMarker(c) == c \in SimpleMarkers \/ IsBracket(c)

StripComments(S) == SelectSeq(S, IsMarker)

\* S with every character that is no bracket replaced by one other character.
Skeleton(S) == [k \in 1..Len(S) |-> IF IsBracket(S[k]) THEN S[k] ELSE "c"]

\* The characters strictly between indices i and j of S.
Between(S, i, j) == SubSeq(S, i + 2, j)

\* A tree written back as marker characters.
RECURSIVE Unparse(_)
Unparse(P) ==
    IF P = <<>> THEN <<>>
    ELSE LET h == Head(P)
             text == IF h.type = "BFLoop" THEN <<"[">> \o Unparse(h.LoopBody) \o <<"]">>
                     ELSE IF h.type = "BFIncrement" THEN (IF h.Amount = 1 THEN <<"+">> ELSE <<"-">>)
                     ELSE IF h.type = "BFDataIncrement" THEN (IF h.Amount = 1 THEN <<">">> ELSE <<"<">>)
                     ELSE IF h.type = "BFRead" THEN <<",">>
                     ELSE <<".">>
         IN  text \o Unparse(Tail(P))

\* The table of claim C6.
MarkerInstruction(c) ==
    CASE c = "+" -> [type |-> "BFIncrement", Amount |-> 1]
      [] c = "-" -> [type |-> "BFIncrement", Amount |-> -1]
      [] c = ">" -> [type |-> "BFDataIncrement", Amount |-> 1]
      [] c = "<" -> [type |-> "BFDataIncrement", Amount |-> -1]
      [] c = "," -> [type |-> "BFRead"]
      [] c = "." -> [type |-> "BFWrite"]

RECURSIVE CountLoops(_)
CountLoops(P) ==
    IF P = <<>> THEN 0
    ELSE (IF Head(P).type = "BFLoop" THEN 1 + CountLoops(Head(P).LoopBody) ELSE 0)
         + CountLoops(Tail(P))

Returns == stage \notin {"parse", "exit"}

----------------------------------------------------------------------------
\* C3: parseSource returns a Program exactly for the sources whose brackets
\* are balanced; for every other source the process exits inside the
\* parser: no Program is handed on, no pass and no lowering has run or can
\* run afterwards.  While parsing, some step of the parser is always possible.
C3_ParseIffBalanced ==
    /\ parseSource(Source).exited <=> ~Balanced(Source)
    /\ Returns => Balanced(Source) /\ Returned(Original) = parseSource(Source)
    /\ stage = "exit" =>
           /\ ~Balanced(Source)
           /\ Original = <<>> /\ Program = <<>> /\ Main = NoFunc
           /\ ~ENABLED Next
    /\ stage = "parse" => ENABLED Parse

\* An exit that throws away instructions already parsed.
C3_Witness ==
    /\ stage = "exit"
    /\ Top.Program # <<>>
    /\ "[" \in {Source[k] : k \in 1..Len(Source)}

\* The step taken from a '[' without a match.
C4_UnmatchedOpenStep ==
    (Scanning /\ At(Source, Top.I) = "[" /\ RefMatch(Source, Top.I) = -1)
        => /\ stage' = "exit"
           /\ Err' = [msg |-> "Unmatched '['", pos |-> Top.I]
           /\ Stack' = Stack

\* The exit with "Unmatched '['", once taken.
C4_UnmatchedOpenState ==
    /\ (stage = "exit" /\ Err.msg = "Unmatched '['") =>
           /\ Top.I = Err.pos
           /\ At(Source, Err.pos) = "["
           /\ RefMatch(Source, Err.pos) = -1
           /\ parseSource(Source) = Exited("Unmatched '['", Err.pos)
           /\ ~ENABLED Next
    /\ parseSource(<<"[", "+">>) = Exited("Unmatched '['", 0)

\* C4: when the scan is at a '[' at index p for which no later index
\* brings the depth back to 0, the next step is the exit with "Unmatched '['"
\* at p; after it nothing more is scanned.  "[+" reports position 0.
C4_UnmatchedOpen == [][C4_UnmatchedOpenStep]_vars /\ []C4_UnmatchedOpenState

\* An unmatched '[' reported after some characters, with characters after it.
C4_Witness ==
    /\ stage = "exit"
    /\ Err.msg = "Unmatched '['"
    /\ Err.pos > 0
    /\ Err.pos + 1 < Len(Source)

\* The step taken from a ']' that the scan has reached.
C5_UnmatchedCloseStep ==
    (Scanning /\ At(Source, Top.I) = "]")
        => /\ stage' = "exit"
           /\ Err' = [msg |-> "Unmatched ']'", pos |-> Top.I]
           /\ Stack' = Stack

\* The exit with "Unmatched ']'", once taken.
C5_UnmatchedCloseState ==
    /\ (stage = "exit" /\ Err.msg = "Unmatched ']'") =>
           /\ At(Source, Err.pos) = "]"
           /\ Err.pos = FirstDip(Source)
           /\ parseSource(Source) = Exited("Unmatched ']'", Err.pos)
    /\ (stage # "parse" /\ FirstDip(Source) # -1) =>
           /\ stage = "exit"
           /\ Err = [msg |-> "Unmatched ']'", pos |-> FirstDip(Source)]
    /\ stage = "exit" => Balanced(SubSeq(Source, 1, Err.pos))
    /\ parseSource(<<"+", "]">>) = Exited("Unmatched ']'", 1)

\* C5: when the scan is at a ']' at index p, the next step is the exit with
\* "Unmatched ']'" at p, and p is the first index at which more ']' than '['
\* have been read; a source with such an index always ends that way.
\* Whatever error is reported, the text before its position is balanced:
\* it is the first error of the text.  "+]" reports position 1.
C5_UnmatchedClose == [][C5_UnmatchedCloseStep]_vars /\ []C5_UnmatchedCloseState

\* An unmatched ']' reported in a text that has an unmatched '[' after it
\* and a matched pair before it.
C5_Witness ==
    /\ stage = "exit"
    /\ Err.msg = "Unmatched ']'"
    /\ Err.pos >= 2
    /\ Err.pos + 1 < Len(Source)
    /\ At(Source, Err.pos + 1) = "["

\* C6: a source without brackets parses to one instruction per marker
\* character, in order, by the table of the claim; a source that parses
\* gives the tree that the source without its comments gives, and the tree
\* written back as markers is the source without its comments.
C6_OneInstructionPerMarker ==
    /\ (Returns /\ Count(Source, "[", 0, Len(Source) - 1) = 0) =>
           LET markers == StripComments(Source)
           IN  Original = [k \in 1..Len(markers) |-> MarkerInstruction(markers[k])]
    /\ Returns =>
           /\ parseSource(StripComments(Source)) = Returned(Original)
           /\ Unparse(Original) = StripComments(Source)

\* A parsed source with a comment between markers and a loop.
C6_Witness ==
    /\ stage = "parsed"
    /\ Len(Original) >= 2
    /\ Len(StripComments(Source)) < Len(Source)
    /\ CountLoops(Original) > 0

\* The return of the activation that parses the body of a loop.
C7_LoopStep ==
    /\ (stage = "parse" /\ Len(Stack) > 1 /\ ~(Top.I < Top.To)) =>
           LET caller == Stack[Len(Stack) - 1]
               i == caller.I
               j == RefMatch(Source, i)
               body == parseSource(Between(Source, i, j))
           IN  /\ At(Source, i) = "[" /\ j # -1 /\ ~body.exited
               /\ Top.Program = body.Program
               /\ Len(Stack') = Len(Stack) - 1
               /\ Stack'[Len(Stack')] =
                      [caller EXCEPT !.Program = Append(@, BFLoop(body.Program)), !.I = j + 1]
    /\ (stage = "parse" /\ Len(Stack) > 1 /\ Len(Stack') >= Len(Stack)) =>
           Stack'[Len(Stack) - 1] = Stack[Len(Stack) - 1]

\* The tree that parseSource returns.
C7_LoopState ==
    Returns => CountLoops(Original) = Count(Source, "[", 0, Len(Source) - 1)

\* C7: when the activation for the characters between a '[' at i and its
\* match at j returns, the caller's Program grows by exactly one BFLoop
\* whose body is the parse of the characters strictly between i and j, and
\* the caller goes on at j + 1; while the body is parsed the caller's
\* Program does not change.  A parsed tree has one BFLoop per '['.
C7_LoopPerBracketPair == [][C7_LoopStep]_vars /\ []C7_LoopState

\* The return of a body that itself begins with a loop.
C7_Witness ==
    /\ stage = "parse"
    /\ Len(Stack) = 2
    /\ ~(Top.I < Top.To)
    /\ Top.Program # <<>>
    /\ Top.Program[1].type = "BFLoop"

\* C8: for a '[' at i, findMatchingClose gives the least j > i where the
\* depth counted from i is back to 0, and -1 exactly when there is none;
\* the characters that are no brackets do not matter.
C8_BracketMatcher ==
    \A i \in 0..(Len(Source) - 1) :
        At(Source, i) = "[" =>
            /\ findMatchingClose(Source, i) = RefMatch(Source, i)
            /\ findMatchingClose(Source, i) = -1 <=>
                   (\A j \in (i + 1)..(Len(Source) - 1) : Depth(Source, i, j) # 0)
            /\ findMatchingClose(Skeleton(Source), i) = findMatchingClose(Source, i)
            /\ findMatchingClose(StripComments(Source),
                                 Len(StripComments(SubSeq(Source, 1, i)))) =
                   (IF RefMatch(Source, i) = -1 THEN -1
                    ELSE Len(StripComments(SubSeq(Source, 1, RefMatch(Source, i)))))

\* The parser has called the matcher at a '[' whose match lies beyond a
\* nested pair.
C8_Witness ==
    /\ stage = "parse"
    /\ Len(Stack) = 2
    /\ Stack[1].MatchingCloseIdx = Stack[1].I + 3
    /\ At(Source, Stack[1].I + 1) = "["

----------------------------------------------------------------------------
\* The comparisons, on all pairs of small Programs (src/src/bfir.cpp)

MaxEqSize == 2

EqAmounts == {1, 2}

\* The instructions without a body that the comparisons are tried on.
EqAtoms ==
    {BFIncrement(a) : a \in EqAmounts} \cup {BFDataIncrement(a) : a \in EqAmounts}
        \cup {BFRead, BFWrite} \cup {BFSet(a) : a \in EqAmounts}

\* The instructions and the Programs of exactly n nodes over the atoms.
RECURSIVE InstsOfSize(_, _), ProgsOfSize(_, _)
InstsOfSize(atoms, n) ==
    IF n = 1 THEN atoms \cup {BFLoop(<<>>)}
    ELSE {BFLoop(body) : body \in ProgsOfSize(atoms, n - 1)}

ProgsOfSize(atoms, n) ==
    IF n = 0 THEN {<<>>}
    ELSE UNION {{<<h>> \o t : h \in InstsOfSize(atoms, k), t \in ProgsOfSize(atoms, n - k)} :
                k \in 1..n}

ProgsUpTo(atoms, n) == UNION {ProgsOfSize(atoms, k) : k \in 0..n}

InstsUpTo(atoms, n) == UNION {InstsOfSize(atoms, k) : k \in 1..n}

EqPrograms == ProgsUpTo(EqAtoms, MaxEqSize)

EqInstructions == InstsUpTo(EqAtoms, MaxEqSize)

\* operator== and operator!= on the instructions at the same place k of X
\* and Y, as the loop of operator== on Programs calls them.
CompareInstructions ==
    /\ stage = "compare"
    /\ \E k \in 1..Len(ProgX) :
           /\ k <= Len(ProgY)
           /\ Verdict' = [of |-> "instructions", k |-> k,
                          eq |-> InstEq(ProgX[k], ProgY[k]),
                          ne |-> InstNe(ProgX[k], ProgY[k])]
    /\ stage' = "compared"
    /\ UNCHANGED <<Source, Stack, Err, Original, Program, runVars, ProgX, ProgY, heapVars>>

\* operator== and operator!= on the Programs X and Y.
ComparePrograms ==
    /\ stage = "compare"
    /\ Verdict' = [of |-> "programs", eq |-> ProgEq(ProgX, ProgY), ne |-> ProgNe(ProgX, ProgY)]
    /\ stage' = "compared"
    /\ UNCHANGED <<Source, Stack, Err, Original, Program, runVars, ProgX, ProgY, heapVars>>

InitEq ==
    /\ Source = <<>>
    /\ Input = <<>>
    /\ charSigned = TRUE
    /\ stage = "compare"
    /\ Stack = <<>>
    /\ Err = NoErr
    /\ Original = <<>>
    /\ Program = <<>>
    /\ IdleRuns
    /\ ProgX \in EqPrograms
    /\ ProgY \in EqPrograms
    /\ Verdict = NoVerdict
    /\ IdleHeap

NextEq == CompareInstructions \/ ComparePrograms

SpecEq == InitEq /\ [][NextEq]_vars

\* No BFSet anywhere in the instruction.
RECURSIVE NoSet(_)
NoSet(X) ==
    /\ X.type # "BFSet"
    /\ X.type = "BFLoop" => \A k \in 1..Len(X.LoopBody) : NoSet(X.LoopBody[k])

NoSetIn(P) == \A k \in 1..Len(P) : NoSet(P[k])

\* C9: on the five variants BFIncrement, BFDataIncrement, BFRead, BFWrite
\* and BFLoop, operator== on instructions returns true exactly for the same
\* variant with the same payload, bodies of loops compared as Programs;
\* operator== on Programs returns true exactly for the same length with
\* equal instructions in order; instructions of different variants are never
\* equal; operator!= returns the negation of operator==.  A loop around
\* BFDataIncrement(1) equals its like, and differs from the loop around
\* BFDataIncrement(2) and from the empty loop.
C9_DeepEquality ==
    /\ Verdict.of = "instructions" =>
           LET x == ProgX[Verdict.k]
               y == ProgY[Verdict.k]
           IN  /\ (NoSet(x) /\ NoSet(y)) => (Verdict.eq <=> x = y)
               /\ x.type # y.type => ~Verdict.eq
               /\ (x.type = "BFLoop" /\ y.type = "BFLoop") =>
                      (Verdict.eq <=> ProgEq(x.LoopBody, y.LoopBody))
               /\ Verdict.ne <=> ~Verdict.eq
    /\ Verdict.of = "programs" =>
           /\ (NoSetIn(ProgX) /\ NoSetIn(ProgY)) => (Verdict.eq <=> ProgX = ProgY)
           /\ Verdict.eq <=> /\ Len(ProgX) = Len(ProgY)
                             /\ \A k \in 1..Len(ProgX) : InstEq(ProgX[k], ProgY[k])
           /\ Verdict.ne <=> ~Verdict.eq
    /\ InstEq(BFLoop(<<BFDataIncrement(1)>>), BFLoop(<<BFDataIncrement(1)>>))
    /\ InstNe(BFLoop(<<BFDataIncrement(1)>>), BFLoop(<<BFDataIncrement(2)>>))
    /\ InstNe(BFLoop(<<BFDataIncrement(1)>>), BFLoop(<<>>))

\* Two loops with bodies of the same length have been compared and found
\* different.
C9_Witness ==
    /\ Verdict.of = "instructions"
    /\ ProgX[Verdict.k].type = "BFLoop"
    /\ ProgY[Verdict.k].type = "BFLoop"
    /\ Len(ProgX[Verdict.k].LoopBody) = 1
    /\ Len(ProgY[Verdict.k].LoopBody) = 1
    /\ Verdict.ne

\* C10: operator== is reflexive, symmetric and transitive, on instructions
\* and on Programs.
C10_Equivalence ==
    /\ Verdict.of = "instructions" =>
           LET x == ProgX[Verdict.k]
               y == ProgY[Verdict.k]
           IN  /\ x = y => Verdict.eq
               /\ InstEq(x, x) /\ InstEq(y, y)
               /\ Verdict.eq <=> InstEq(y, x)
               /\ Verdict.eq =>
                      \A z \in EqInstructions : InstEq(y, z) => InstEq(x, z)
    /\ Verdict.of = "programs" =>
           /\ ProgX = ProgY => Verdict.eq
           /\ ProgEq(ProgX, ProgX) /\ ProgEq(ProgY, ProgY)
           /\ Verdict.eq <=> ProgEq(ProgY, ProgX)
           /\ Verdict.eq =>
                  \A Z \in EqPrograms : ProgEq(ProgY, Z) => ProgEq(ProgX, Z)

\* Two Programs that begin with a loop around one instruction have been
\* compared and found equal.
C10_Witness ==
    /\ Verdict.of = "programs"
    /\ Verdict.eq
    /\ Len(ProgX) = 1
    /\ ProgX[1].type = "BFLoop"
    /\ Len(ProgX[1].LoopBody) = 1

\* C11: operator== on two BFSet instructions returns true exactly when their
\* amounts are equal (BFSet(1) equals BFSet(1) and differs from BFSet(2)),
\* and a BFSet never equals an instruction of another class; operator!= is
\* the negation.
C11_SetEquality ==
    Verdict.of = "instructions" =>
        LET x == ProgX[Verdict.k]
            y == ProgY[Verdict.k]
        IN  (x.type = "BFSet" \/ y.type = "BFSet") =>
                /\ Verdict.eq <=> (x.type = y.type /\ x.Amount = y.Amount)
                /\ Verdict.ne <=> ~Verdict.eq

\* Two BFSet instructions with the same amount have been compared and found
\* equal, and a BFSet has been found different from a BFIncrement of its
\* amount.
C11_SetsAgree ==
    /\ Verdict.of = "instructions"
    /\ Len(ProgX) = 2 /\ Len(ProgY) = 2
    /\ ProgX[1] = BFSet(1) /\ ProgY[1] = BFSet(1)
    /\ ProgX[2] = BFSet(2) /\ ProgY[2] = BFIncrement(2)
    /\ \/ Verdict.k = 1 /\ Verdict.eq
       \/ Verdict.k = 2 /\ Verdict.ne

----------------------------------------------------------------------------
\* The byte-tape meaning of a Program: cells are bytes, arithmetic on them
\* is mod 256, a BFLoop runs its body while the current cell is not zero, a
\* BFSet stores its amount.  The tape starts zeroed with the pointer at 0.
\* A tree machine holds the activations of Programs being run (frames: the
\* Program and the place k of its next instruction), the tape, the pointer,
\* the count of consumed input bytes, the bytes written, and status:
\* "running", "done", or "offtape" after the use of a cell outside the tape.
\* A step runs one instruction, or tests the current cell at the end of the
\* body of a loop.

MaxTreeSteps == 520

TreeStart(P) ==
    [frames |-> <<[prog |-> P, k |-> 1]>>, cells |-> ZeroedCells, ptr |-> 0,
     inpos |-> 0, out |-> <<>>, status |-> "running"]

\* The machine t with the top activation moved to its next instruction.
TreeAdvance(t) == [t EXCEPT !.frames[Len(t.frames)].k = @ + 1]

TreeStep(t, Inp) ==
    LET f == t.frames[Len(t.frames)]
    IN  IF f.k > Len(f.prog)
            THEN IF Len(t.frames) = 1 THEN [t EXCEPT !.status = "done"]
                 ELSE IF ~InTape(t.ptr) THEN [t EXCEPT !.status = "offtape"]
                 ELSE IF CellAt(t.cells, t.ptr) # 0 THEN [t EXCEPT !.frames[Len(t.frames)].k = 1]
                 ELSE TreeAdvance([t EXCEPT !.frames = SubSeq(@, 1, Len(@) - 1)])
        ELSE LET inst == f.prog[f.k]
             IN  IF inst.type = "BFDataIncrement"
                     THEN [TreeAdvance(t) EXCEPT !.ptr = @ + inst.Amount]
                 ELSE IF ~InTape(t.ptr) THEN [t EXCEPT !.status = "offtape"]
                 ELSE CASE inst.type = "BFIncrement" ->
                               [TreeAdvance(t) EXCEPT
                                   !.cells = CellPut(@, t.ptr,
                                                     (CellAt(@, t.ptr) + inst.Amount) % 256)]
                        [] inst.type = "BFSet" ->
                               [TreeAdvance(t) EXCEPT
                                   !.cells = CellPut(@, t.ptr, inst.Amount % 256)]
                        [] inst.type = "BFRead" ->
                               [TreeAdvance(t) EXCEPT
                                   !.cells = CellPut(@, t.ptr, getchar(Inp, t.inpos) % 256),
                                   !.inpos = IF @ < Len(Inp) THEN @ + 1 ELSE @]
                        [] inst.type = "BFWrite" ->
                               [TreeAdvance(t) EXCEPT !.out = Append(@, CellAt(t.cells, t.ptr))]
                        [] inst.type = "BFLoop" ->
                               IF CellAt(t.cells, t.ptr) # 0
                                   THEN [t EXCEPT !.frames = Append(@, [prog |-> inst.LoopBody,
                                                                        k |-> 1])]
                               ELSE TreeAdvance(t)

\* At most n steps from t, stopping when the machine stops.
RECURSIVE TreeSteps(_, _, _)
TreeSteps(t, Inp, n) ==
    IF n = 0 \/ t.status # "running" THEN t
    ELSE IF n = 1 THEN TreeStep(t, Inp)
    ELSE TreeSteps(TreeSteps(t, Inp, n \div 2), Inp, n - (n \div 2))

TreeRun(P, Inp, n) == TreeSteps(TreeStart(P), Inp, n)

----------------------------------------------------------------------------
\* applyAllPasses on all small Programs (src/src/optimisations.cpp)

MaxOptSize == 4

MaxInputLen == 1

InputBytes == {2}

Inputs == SeqsUpTo(InputBytes, MaxInputLen)

OptAtoms ==
    {BFIncrement(1), BFIncrement(-1), BFDataIncrement(1), BFDataIncrement(-1),
     BFRead, BFWrite, BFSet(2)}

InitOpt ==
    /\ Source = <<>>
    /\ Input \in Inputs
    /\ charSigned = TRUE
    /\ stage = "parsed"
    /\ Stack = <<>>
    /\ Err = NoErr
    /\ Original \in ProgsUpTo(OptAtoms, MaxOptSize)
    /\ Program = Original
    /\ IdleRuns
    /\ IdleCompare
    /\ IdleHeap

NextOpt == ApplyAllPasses

SpecOpt == InitOpt /\ [][NextOpt]_vars

IsPrefix(a, b) == Len(a) <= Len(b) /\ SubSeq(b, 1, Len(a)) = a

\* C2: at every stage of applyAllPasses, on every input, the Program of the
\* stage writes what the Program handed to applyAllPasses writes, both run
\* from the zeroed tape with the pointer at 0: when the run of the first
\* Program ends, the run of the Program of the stage ends too, with the
\* same bytes written; when the run of the first Program has not ended
\* after MaxTreeSteps steps, what it has written so far is the beginning of
\* what the Program of the stage writes.  Runs of the first Program that
\* use a cell outside the tape have no defined meaning and are left out;
\* the Program of the stage uses no cell outside the tape on the others.
C2_OutputPreserved ==
    LET before == TreeRun(Original, Input, MaxTreeSteps)
        after == TreeRun(Program, Input, MaxTreeSteps + 1)
    IN  /\ before.status = "done" =>
               /\ after.status = "done"
               /\ after.out = before.out
        /\ before.status = "running" =>
               /\ after.status # "offtape"
               /\ IsPrefix(before.out, after.out)

\* The whole pipeline has run on a Program that brings the first cell to
\* 255, runs the loop that a pass replaces, and writes the cell.
C2_Witness ==
    /\ stage = "optimised"
    /\ Original = <<BFIncrement(-1), BFLoop(ZeroingLoopBody), BFWrite>>
    /\ Program # Original
    /\ TreeRun(Original, Input, MaxTreeSteps).out = <<0>>

----------------------------------------------------------------------------
\* Each pass called on its own on all small Programs, as the tests of
\* src/src/run_tests.cpp call them (src/src/optimisations.cpp)

MaxPassSize == 3

PassAtoms ==
    {BFIncrement(a) : a \in {-1, 0, 1, 2}} \cup {BFDataIncrement(a) : a \in {-1, 1}}
        \cup {BFSet(a) : a \in {0, 2}} \cup {BFRead}

\* Original is the argument of the call, Program what the call returns, and
\* stage names the pass that was called.
CallPass(pass, result) ==
    /\ stage = "call"
    /\ Program' = result
    /\ stage' = pass
    /\ UNCHANGED <<Source, Stack, Err, Original, runVars, eqVars, heapVars>>

CallCombineIncrements == CallPass("combineIncrements", combineIncrements(Original))

CallCombineDataIncrements ==
    CallPass("combineDataIncrements", combineDataIncrements(Original))

CallMarkKnownZero == CallPass("markKnownZero", markKnownZero(Original))

CallCombineSets == CallPass("combineSets", combineSets(Original))

CallSimplifyZeroingLoop == CallPass("simplifyZeroingLoop", simplifyZeroingLoop(Original))

CallCombineSetAndIncrements ==
    CallPass("combineSetAndIncrements", combineSetAndIncrements(Original))

\* The call of applyAllPasses, which then runs statement by statement.
BeginApplyAllPasses ==
    /\ stage = "call"
    /\ stage' = "parsed"
    /\ UNCHANGED <<Source, Stack, Err, Original, Program, runVars, eqVars, heapVars>>

InitPass ==
    /\ Source = <<>>
    /\ stage = "call"
    /\ Stack = <<>>
    /\ Err = NoErr
    /\ Original \in ProgsUpTo(PassAtoms, MaxPassSize)
    /\ Program = Original
    /\ Input = <<>>
    /\ charSigned = TRUE
    /\ IdleRuns
    /\ IdleCompare
    /\ IdleHeap

NextPass ==
    \/ CallCombineIncrements
    \/ CallCombineDataIncrements
    \/ CallMarkKnownZero
    \/ CallCombineSets
    \/ CallSimplifyZeroingLoop
    \/ CallCombineSetAndIncrements
    \/ BeginApplyAllPasses
    \/ ApplyAllPasses

SpecPass == InitPass /\ [][NextPass]_vars

\* The maximal runs of instructions of class T at the top level of P: a run
\* starts at k when P[k] is of class T and P[k - 1] is not, and ends at the
\* last place up to which every instruction is of class T.
RunStart(P, k, T) == P[k].type = T /\ (k = 1 \/ P[k - 1].type # T)

RunEnd(P, k, T) ==
    CHOOSE j \in k..Len(P) :
        /\ \A i \in k..j : P[i].type = T
        /\ j = Len(P) \/ P[j + 1].type # T

RECURSIVE SumAmounts(_, _, _)
SumAmounts(P, i, j) == IF i > j THEN 0 ELSE P[i].Amount + SumAmounts(P, i + 1, j)

RECURSIVE Concat(_)
Concat(pieces) == IF pieces = <<>> THEN <<>> ELSE Head(pieces) \o Concat(Tail(pieces))

\* P with every maximal run i..j of class T replaced by Piece(i, j).
RunsReplaced(P, T, Piece(_, _)) ==
    Concat([k \in 1..Len(P) |->
               IF P[k].type # T THEN <<P[k]>>
               ELSE IF RunStart(P, k, T) THEN Piece(k, RunEnd(P, k, T))
               ELSE <<>>])

\* P with every maximal run of class T replaced by one instruction Make(s)
\* for its sum s, and by nothing when s = 0.
RunsSummed(P, T, Make(_)) ==
    RunsReplaced(P, T, LAMBDA i, j : IF SumAmounts(P, i, j) # 0
                                         THEN <<Make(SumAmounts(P, i, j))>>
                                     ELSE <<>>)

Adjacent(P, T, U) == \E k \in 1..(Len(P) - 1) : P[k].type = T /\ P[k + 1].type = U

NotZeroIncrement(X) == X # BFIncrement(0)

\* C12: combineIncrements(P) is P with every maximal run of adjacent
\* top-level BFIncrements of sum s # 0 replaced by BFIncrement(s), every
\* other instruction kept in its order (what a run of sum 0 leaves is not
\* part of this statement); the result never has two adjacent BFIncrements;
\* a BFIncrement is not merged with a BFDataIncrement, so the Program parsed
\* from "+>" is returned as it is by combineIncrements and by
\* combineDataIncrements; BFIncrement 1, -1, 1 gives BFIncrement(1).
C12_IncrementRunsMerged ==
    /\ stage = "combineIncrements" =>
           /\ SelectSeq(Program, NotZeroIncrement)
                  = RunsSummed(Original, "BFIncrement", BFIncrement)
           /\ ~Adjacent(Program, "BFIncrement", "BFIncrement")
    /\ LET PlusRight == parseSource(<<"+", ">">>).Program
       IN  /\ ProgEq(combineIncrements(PlusRight), PlusRight)
           /\ ProgEq(combineDataIncrements(PlusRight), PlusRight)
    /\ combineIncrements(<<BFIncrement(1), BFIncrement(-1), BFIncrement(1)>>)
           = <<BFIncrement(1)>>

\* combineIncrements has returned from a Program with a run of two
\* BFIncrements after an instruction of another class.
C12_Witness ==
    /\ stage = "combineIncrements"
    /\ Len(Original) = 3
    /\ Original[1].type = "BFDataIncrement"
    /\ Original[2] = BFIncrement(-1) /\ Original[3] = BFIncrement(2)
    /\ Program = <<Original[1], BFIncrement(1)>>

\* C13: on Programs with arbitrary integer amounts, every maximal run of
\* adjacent top-level BFIncrements of sum 0, of any length from 1, leaves no
\* instruction in the result of combineIncrements, so that the result has
\* as many instructions as there are instructions of other classes and runs
\* of sum # 0, and no BFIncrement(0); BFIncrement(1), BFIncrement(-1),
\* BFDataIncrement(1) gives BFDataIncrement(1).
C13_ZeroRunsDropped ==
    /\ stage = "combineIncrements" =>
           /\ Len(Program) = Len(RunsSummed(Original, "BFIncrement", BFIncrement))
           /\ \A k \in 1..Len(Program) : Program[k] # BFIncrement(0)
    /\ combineIncrements(<<BFIncrement(1), BFIncrement(-1), BFDataIncrement(1)>>)
           = <<BFDataIncrement(1)>>

\* combineIncrements has dropped a run of sum 0 made of three BFIncrements,
\* none of amount 0.
C13_RunDropped ==
    /\ stage = "combineIncrements"
    /\ Original = <<BFIncrement(-1), BFIncrement(2), BFIncrement(-1)>>
    /\ Program = <<>>

\* BFIncrement(n) and BFDataIncrement(n) exchanged at the top level of P.
swap(P) ==
    [k \in 1..Len(P) |->
        IF P[k].type = "BFIncrement" THEN BFDataIncrement(P[k].Amount)
        ELSE IF P[k].type = "BFDataIncrement" THEN BFIncrement(P[k].Amount)
        ELSE P[k]]

\* C14: combineDataIncrements is combineIncrements with the roles of
\* BFIncrement and BFDataIncrement exchanged: combineDataIncrements(P) is
\* swap(combineIncrements(swap(P))) for every Program P;
\* BFDataIncrement(1), BFDataIncrement(2) gives BFDataIncrement(3), and the
\* Program parsed from "><>" gives the Program parsed from ">".
C14_DataIncrementsBySwap ==
    /\ stage = "combineDataIncrements" =>
           Program = swap(combineIncrements(swap(Original)))
    /\ combineDataIncrements(<<BFDataIncrement(1), BFDataIncrement(2)>>)
           = <<BFDataIncrement(3)>>
    /\ ProgEq(combineDataIncrements(parseSource(<<">", "<", ">">>).Program),
              parseSource(<<">">>).Program)

\* combineDataIncrements has returned from a Program with a run of
\* BFDataIncrements that cancel, followed by a BFIncrement: the run is gone
\* and the BFIncrement is kept.
C14_Witness ==
    /\ stage = "combineDataIncrements"
    /\ Len(Original) = 3
    /\ Original[1] = BFDataIncrement(1) /\ Original[2] = BFDataIncrement(-1)
    /\ Original[3].type = "BFIncrement"
    /\ Program = <<Original[3]>>

\* C15: markKnownZero(P) is BFSet(0) followed by the instructions of P, the
\* same and in the same order: its length is that of P plus one and its
\* first instruction is BFSet(0), also when P is empty or starts with a
\* BFSet.
C15_ZeroPrepended ==
    /\ stage = "markKnownZero" =>
           /\ Len(Program) = Len(Original) + 1
           /\ Program[1] = BFSet(0)
           /\ \A k \in 1..Len(Original) : Program[k + 1] = Original[k]
    /\ markKnownZero(<<>>) = <<BFSet(0)>>

\* markKnownZero has returned from a Program that starts with a BFSet.
C15_Witness ==
    /\ stage = "markKnownZero"
    /\ Len(Original) = 2
    /\ Original[1] = BFSet(2)
    /\ Program = <<BFSet(0), BFSet(2), Original[2]>>

\* C16: combineSets(P) is P with every maximal run of adjacent top-level
\* BFSets replaced by the last BFSet of the run, every other instruction
\* kept in its order; the result never has two adjacent BFSets.
C16_LastSetOfRunKept ==
    stage = "combineSets" =>
        /\ Program = RunsReplaced(Original, "BFSet", LAMBDA i, j : <<Original[j]>>)
        /\ ~Adjacent(Program, "BFSet", "BFSet")

\* combineSets has returned from a Program that ends with a run of two
\* BFSets of different amounts, and has kept the second.
C16_Witness ==
    /\ stage = "combineSets"
    /\ Len(Original) = 3
    /\ Original[1].type = "BFRead"
    /\ Original[2] = BFSet(2) /\ Original[3] = BFSet(0)
    /\ Program = <<BFRead, BFSet(0)>>

\* C17: simplifyZeroingLoop(P) has the length of P, and at each top-level
\* place k it has BFSet(0) when P[k] is a loop whose body is exactly
\* BFIncrement(-1), and P[k] itself otherwise: loops with another body (the
\* empty one, BFIncrement(1), two BFIncrement(-1), a zeroing loop inside)
\* and the instructions that are not loops stay as they are.
C17_ZeroingLoopsReplaced ==
    /\ stage = "simplifyZeroingLoop" =>
           /\ Len(Program) = Len(Original)
           /\ \A k \in 1..Len(Original) :
                  Program[k] = IF Original[k] = BFLoop(<<BFIncrement(-1)>>)
                                   THEN BFSet(0)
                               ELSE Original[k]
    /\ LET Kept == <<BFLoop(<<>>), BFLoop(<<BFIncrement(1)>>),
                     BFLoop(<<BFIncrement(-1), BFIncrement(-1)>>),
                     BFLoop(<<BFLoop(<<BFIncrement(-1)>>)>>), BFRead>>
       IN  simplifyZeroingLoop(Kept) = Kept

\* simplifyZeroingLoop has returned from a Program with a zeroing loop and
\* an empty loop: the first is replaced, the second kept.
C17_Witness ==
    /\ stage = "simplifyZeroingLoop"
    /\ Original = <<BFLoop(<<BFIncrement(-1)>>), BFLoop(<<>>)>>
    /\ Program = <<BFSet(0), BFLoop(<<>>)>>

\* P[k] is a BFIncrement of the run that comes right after a BFSet.
FollowsSet(P, k) ==
    /\ P[k].type = "BFIncrement"
    /\ \E i \in 1..(k - 1) :
           /\ P[i].type = "BFSet"
           /\ \A m \in (i + 1)..k : P[m].type = "BFIncrement"

\* The sum of the run of BFIncrements that starts right after place k, 0
\* when there is none.
SumAfter(P, k) ==
    IF k < Len(P) /\ P[k + 1].type = "BFIncrement"
        THEN SumAmounts(P, k + 1, RunEnd(P, k + 1, "BFIncrement"))
    ELSE 0

\* P with every BFSet(v) and the run of BFIncrements right after it replaced
\* by the one BFSet of v plus the sum of the run.
SetsFolded(P) ==
    Concat([k \in 1..Len(P) |->
               IF P[k].type = "BFSet" THEN <<BFSet(P[k].Amount + SumAfter(P, k))>>
               ELSE IF FollowsSet(P, k) THEN <<>>
               ELSE <<P[k]>>])

\* C18: combineSetAndIncrements(P) is P with every top-level BFSet(v) that
\* is followed at once by a run of BFIncrements d1..dk, k >= 1, replaced
\* with that run by BFSet(v + d1 + ... + dk), the rest kept in its order (a
\* BFIncrement before a BFSet and a BFSet before a BFSet are not merged);
\* the result never has a BFSet followed at once by a BFIncrement;
\* markKnownZero then combineSetAndIncrements on the Program parsed from "+"
\* gives BFSet(1).
C18_IncrementsFoldedIntoSet ==
    /\ stage = "combineSetAndIncrements" =>
           /\ Program = SetsFolded(Original)
           /\ ~Adjacent(Program, "BFSet", "BFIncrement")
    /\ combineSetAndIncrements(<<BFIncrement(1), BFSet(2), BFSet(0)>>)
           = <<BFIncrement(1), BFSet(2), BFSet(0)>>
    /\ combineSetAndIncrements(markKnownZero(parseSource(<<"+">>).Program))
           = <<BFSet(1)>>

\* combineSetAndIncrements has returned from a Program with a BFSet
\* followed by two BFIncrements: both are added to the BFSet.
C18_Witness ==
    /\ stage = "combineSetAndIncrements"
    /\ Original = <<BFSet(2), BFIncrement(1), BFIncrement(2)>>
    /\ Program = <<BFSet(5)>>

\* A step of applyAllPasses: the statement that follows the stage reached,
\* applied to the Program of that stage.
C19_NextPass ==
    /\ Original' = Original
    /\ \/ stage = "parsed" /\ stage' = "pass1"
              /\ Program' = combineIncrements(Program)
       \/ stage = "pass1" /\ stage' = "pass2"
              /\ Program' = combineDataIncrements(Program)
       \/ stage = "pass2" /\ stage' = "pass3"
              /\ Program' = markKnownZero(Program)
       \/ stage = "pass3" /\ stage' = "pass4"
              /\ Program' = combineSets(Program)
       \/ stage = "pass4" /\ stage' = "pass5"
              /\ Program' = simplifyZeroingLoop(Program)
       \/ stage = "pass5" /\ stage' = "optimised"
              /\ Program' = combineSetAndIncrements(Program)

\* From the call of applyAllPasses to its return, every step is the next
\* pass.
C19_InOrder ==
    stage \in {"parsed", "pass1", "pass2", "pass3", "pass4", "pass5"} => C19_NextPass

\* What applyAllPasses has returned, and its two examples.
C19_Composition ==
    /\ stage = "parsed" => Program = Original
    /\ stage = "optimised" =>
           Program = applyAllPasses(Original)
    /\ stage = "optimised" =>
           Program = combineSetAndIncrements(simplifyZeroingLoop(combineSets(
                         markKnownZero(combineDataIncrements(combineIncrements(
                             Original))))))
    /\ (stage = "optimised" /\ Original = parseSource(<<"+">>).Program) =>
           Program = <<BFSet(1)>>
    /\ (stage = "optimised" /\ Original = parseSource(<<"[", "-", "]", "+">>).Program) =>
           Program = <<BFSet(0), BFSet(1)>>

\* C19: applyAllPasses runs each of the six passes once, in the order
\* combineIncrements, combineDataIncrements, markKnownZero, combineSets,
\* simplifyZeroingLoop, combineSetAndIncrements, each on the result of the
\* one before, so that what it returns for P is
\* combineSetAndIncrements(simplifyZeroingLoop(combineSets(markKnownZero(
\* combineDataIncrements(combineIncrements(P)))))); the Program parsed from
\* "+" gives BFSet(1), and in the Program parsed from "[-]+" the BFIncrement
\* is added to the BFSet that replaced the loop.
C19_FixedOrder == [][C19_InOrder]_vars /\ []C19_Composition

\* applyAllPasses has returned from the Program parsed from "[-]+".
C19_Witness ==
    /\ stage = "optimised"
    /\ Original = <<BFLoop(<<BFIncrement(-1)>>), BFIncrement(1)>>
    /\ Program = <<BFSet(0), BFSet(1)>>

IsLoop(X) == X.type = "BFLoop"

IsKeptLoop(X) == X.type = "BFLoop" /\ X # BFLoop(<<BFIncrement(-1)>>)

\* C20: the passes work on the top level only.  The loops of the result of
\* each of the six passes and of applyAllPasses are loops of the argument,
\* in the same order and each with its body as it was: all of them for the
\* five passes that remove no loop, all but the top-level zeroing loops for
\* simplifyZeroingLoop and applyAllPasses.  No instruction inside a body is
\* merged, removed, replaced or inserted: the loop parsed from "[++]" keeps
\* its two BFIncrement(1), and a zeroing loop inside another loop stays.
C20_LoopBodiesUntouched ==
    /\ stage \in {"combineIncrements", "combineDataIncrements", "markKnownZero",
                  "combineSets", "combineSetAndIncrements"} =>
           SelectSeq(Program, IsLoop) = SelectSeq(Original, IsLoop)
    /\ stage \in {"simplifyZeroingLoop", "optimised"} =>
           SelectSeq(Program, IsLoop) = SelectSeq(Original, IsKeptLoop)
    /\ LET TwoPlus == parseSource(<<"[", "+", "+", "]">>).Program
       IN  /\ TwoPlus = <<BFLoop(<<BFIncrement(1), BFIncrement(1)>>)>>
           /\ combineIncrements(TwoPlus) = TwoPlus
           /\ applyAllPasses(TwoPlus) = <<BFSet(0)>> \o TwoPlus

\* applyAllPasses has returned from a Program that is a loop around a
\* zeroing loop: the loop is in the result as it was.
C20_Witness ==
    /\ stage = "optimised"
    /\ Original = <<BFLoop(<<BFLoop(<<BFIncrement(-1)>>)>>)>>
    /\ Program = <<BFSet(0)>> \o Original

----------------------------------------------------------------------------
\* The lowered function and the reference interpreter run on the same
\* source and input (src/src/bfir.cpp, src/c/main.c)

MaxRunSteps == 12

Stopped(machine) == machine.status # "running" \/ machine.steps >= MaxRunSteps

\* The function main runs its next basic block.
RunMain ==
    /\ stage = "compiled"
    /\ ~Stopped(run)
    /\ run' = ExecBlock(Main, run, Input)
    /\ UNCHANGED <<parserVars, Original, Program, Main, Input, charSigned, ev, eqVars, heapVars>>

\* eval_program(Source) is called once main has stopped, and takes one turn
\* of its while loop at a time; it returns when the test of the loop fails.
EvalProgram ==
    /\ stage = "compiled"
    /\ Stopped(run)
    /\ IF ev = Idle THEN ev' = EvalStart
       ELSE /\ ~Stopped(ev)
            /\ IF ev.instruction_index < Len(Source)
                   THEN ev' = EvalTurn(Source, ev, Input, charSigned)
               ELSE ev' = [ev EXCEPT !.status = "done"]
    /\ UNCHANGED <<parserVars, Original, Program, Main, Input, charSigned, run, eqVars, heapVars>>

InitDiff ==
    /\ Source \in Sources
    /\ Input \in Inputs
    /\ charSigned \in BOOLEAN
    /\ InitCompiler
    /\ IdleRuns
    /\ IdleCompare
    /\ IdleHeap

NextDiff ==
    \/ Parse
    \/ CompileProgram
    \/ RunMain
    \/ EvalProgram

SpecDiff == InitDiff /\ [][NextDiff]_vars

\* Both runs have stopped, and neither has left the tape.
BothStopped ==
    /\ stage = "compiled"
    /\ Stopped(run)
    /\ ev # Idle
    /\ Stopped(ev)
    /\ run.status # "undefined"
    /\ ev.status # "aborted"

\* C1: on every source that parses and every input, with the pointer inside
\* the tape, the bytes written by eval_program are the bytes written by the
\* function that compileProgram makes of parseSource(Source): the same
\* sequence when both runs end, and when a run has not ended after
\* MaxRunSteps steps, what it has written so far is the beginning of what
\* the other writes.
C1_SameOutput ==
    BothStopped =>
        /\ (ev.status = "done" /\ run.status = "returned") => ev.out = run.out
        /\ ev.status = "done" => IsPrefix(run.out, ev.out)
        /\ run.status = "returned" => IsPrefix(ev.out, run.out)
        /\ IsPrefix(ev.out, run.out) \/ IsPrefix(run.out, ev.out)

\* Both runs have ended on a source with a loop, and have written the same
\* bytes, at least one.
C1_Agree ==
    /\ BothStopped
    /\ ev.status = "done" /\ run.status = "returned"
    /\ "[" \in {Source[k] : k \in 1..Len(Source)}
    /\ ev.out # <<>>
    /\ ev.out = run.out

----------------------------------------------------------------------------
\* The activations of parseSourceBetween below the outermost one

\* The characters From..To-1 of the source.
Range(From, To) == SubSeq(Source, From + 1, To)

\* The activation f, called by the activation caller, is as C29 says.
NestedCall(f, caller) ==
    /\ caller.I = f.From - 1
    /\ caller.MatchingCloseIdx = f.To
    /\ At(Source, f.From - 1) = "["
    /\ At(Source, f.To) = "]"
    /\ RefMatch(Source, f.From - 1) = f.To
    /\ Balanced(Range(f.From, f.To))
    /\ f.From <= f.I /\ f.I <= f.To
    /\ \A i \in f.From..(f.To - 1) :
           At(Source, i) = "[" =>
               /\ findMatchingClose(Source, i) = RefMatch(Source, i)
               /\ i < RefMatch(Source, i)
               /\ RefMatch(Source, i) < f.To
    /\ f.I < f.To => At(Source, f.I) # "]"
    /\ Unparse(f.Program) = StripComments(Range(f.From, f.I))

\* C29: every recursive call of parseSourceBetween works on the characters
\* between a '[' and its match, a well-bracketed range; every '[' of the
\* range has its match, found by findMatchingClose in the whole source,
\* before To; the scan of a nested call never stands on a ']'; an
\* "Unmatched" error is reported by the outermost call only; and the body
\* of a loop holds the instructions of the markers between its brackets
\* and no others.
C29_NestedRanges ==
    /\ \A d \in 2..Len(Stack) : NestedCall(Stack[d], Stack[d - 1])
    /\ stage = "exit" => Len(Stack) = 1

\* The call on the inside of the outer loop of "[[]]" has got the inner
\* loop back from the call below it and is at its To.
C29_Witness ==
    /\ Source = <<"[", "[", "]", "]">>
    /\ stage = "parse"
    /\ Len(Stack) = 2
    /\ Top.From = 1 /\ Top.To = 3 /\ Top.I = 3
    /\ Top.Program = <<BFLoop(<<>>)>>

----------------------------------------------------------------------------
\* compileProgram on all small Programs, and the function it makes run
\* block by block (src/src/bfir.cpp); the compileProgram of the compiler
\* of src/llvm/compiler.cpp, which differs in its NUM_CELLS

MaxLowerSize == 3

LowerAtoms ==
    {BFIncrement(1), BFIncrement(-1), BFDataIncrement(1), BFDataIncrement(-1),
     BFRead, BFWrite}

\* enum { NUM_CELLS = 3000, ... } of src/llvm/compiler.cpp
Compiler_NUM_CELLS == 3000

Compiler_addCellsInit(F, BB) ==
    EmitAll(F, BB,
        << CreateCall("CellsPtr", "calloc",
                      <<ConstantInt(32, Compiler_NUM_CELLS),
                        ConstantInt(32, CELL_SIZE_IN_BYTES)>>),
           CreateAlloca("CellIndexPtr", 32),
           CreateStore(ConstantInt(32, 0), Reg("CellIndexPtr")) >>)

Compiler_compileProgram(Prog) ==
    LET Func == CreateBlock(<<>>, "entry")
        BB == Len(Func)
        lowered == compileAll(Prog, 1, Compiler_addCellsInit(Func, BB), BB)
    IN  addCellsCleanup(lowered.F, lowered.BB)

\* main of src/llvm/compiler.cpp calls its compileProgram and prints the
\* module; the function is not run here.
Compiler_CompileProgram ==
    /\ stage = "parsed"
    /\ Main' = Compiler_compileProgram(Program)
    /\ stage' = "printed"
    /\ UNCHANGED <<Source, Stack, Err, Original, Program, Input, charSigned, run, ev,
                   eqVars, heapVars>>

InitLower ==
    /\ Source = <<>>
    /\ Input \in Inputs
    /\ charSigned = TRUE
    /\ stage = "parsed"
    /\ Stack = <<>>
    /\ Err = NoErr
    /\ Original \in ProgsUpTo(LowerAtoms, MaxLowerSize)
    /\ Program = Original
    /\ IdleRuns
    /\ IdleCompare
    /\ IdleHeap

NextLower ==
    \/ CompileProgram
    \/ Compiler_CompileProgram
    \/ RunMain

SpecLower == InitLower /\ [][NextLower]_vars

\* The function that compileProgram has when it starts on the Program.
LowerStart == addCellsInit(CreateBlock(<<>>, "entry"), 1)

\* Where lowering Prog ends, by the count of loops alone: the current block
\* BB and the number n of blocks, when it starts with the current block BB
\* and n blocks.  A loop makes its three blocks n + 1, n + 2, n + 3 and
\* those of the loops inside it, and leaves n + 3 current.
RECURSIVE WalkEnd(_, _, _)
WalkEnd(Prog, BB, n) ==
    IF Prog = <<>> THEN [BB |-> BB, n |-> n]
    ELSE IF Head(Prog).type = "BFLoop"
        THEN WalkEnd(Tail(Prog), n + 3, n + 3 + 3 * CountLoops(Head(Prog).LoopBody))
    ELSE WalkEnd(Tail(Prog), BB, n)

\* The operations of a block, and the last instruction of a block.
Ops(block) == [k \in 1..Len(block.insts) |-> block.insts[k].op]

Terminator(block) == block.insts[Len(block.insts)]

\* Block B of F with one branch to header appended.
BranchAdded(F, B, header) == [F EXCEPT ![B].insts = Append(@, [op |-> "br", dest |-> header])]

\* The header of a loop: the current cell is loaded and compared with zero,
\* and the branch goes to after when it is zero, to body otherwise.
IsHeader(block, body, after) ==
    /\ block.name = "loop_header"
    /\ Ops(block) = <<"load", "gep", "load", "icmp_eq", "condbr">>
    /\ block.insts[1].ptr = Reg("CellIndexPtr")
    /\ block.insts[2].base = Reg("CellsPtr")
    /\ block.insts[2].index = Reg(block.insts[1].dst)
    /\ block.insts[3].ptr = Reg(block.insts[2].dst)
    /\ block.insts[4].lhs = Reg(block.insts[3].dst)
    /\ block.insts[4].rhs = [bits |-> 8, val |-> 0]
    /\ block.insts[5].cond = Reg(block.insts[4].dst)
    /\ block.insts[5].ifTrue = after
    /\ block.insts[5].ifFalse = body

\* Lowering the loop Inst into F with the current block B is as C22 says,
\* and so is lowering every loop inside it; LoopsLowered is the same for the
\* loops of Prog from its k-th instruction on, lowered one after another.
RECURSIVE LoopLowered(_, _, _), LoopsLowered(_, _, _, _)
LoopLowered(Inst, F, B) ==
    LET n == Len(F)
        header == n + 1
        body == n + 2
        after == n + 3
        c == compile(Inst, F, B)
        end == WalkEnd(Inst.LoopBody, body, after)
        \* F with B branching to the header and the three blocks, the header
        \* filled: what the body is lowered into.
        opened == BranchAdded(F, B, header)
                      \o << c.F[header],
                            [name |-> "loop_body", insts |-> <<>>],
                            [name |-> "loop_after", insts |-> <<>>] >>
        inside == compileAll(Inst.LoopBody, 1, opened, body)
    IN  /\ Len(c.F) = end.n
        /\ end.n = n + 3 + 3 * CountLoops(Inst.LoopBody)
        /\ IsHeader(c.F[header], body, after)
        /\ c.F[body].name = "loop_body"
        /\ c.F[after] = [name |-> "loop_after", insts |-> <<>>]
        /\ c.F[B].insts = Append(F[B].insts, [op |-> "br", dest |-> header])
        /\ \A b \in 1..n : b # B => c.F[b] = F[b]
        /\ inside.BB = end.BB
        /\ c.F = BranchAdded(inside.F, end.BB, header)
        /\ Terminator(c.F[end.BB]) = [op |-> "br", dest |-> header]
        /\ c.BB = after
        /\ LoopsLowered(Inst.LoopBody, 1, opened, body)

LoopsLowered(Prog, k, F, B) ==
    IF k > Len(Prog) THEN TRUE
    ELSE /\ Prog[k].type = "BFLoop" => LoopLowered(Prog[k], F, B)
         /\ LET c == compile(Prog[k], F, B)
            IN  LoopsLowered(Prog, k + 1, c.F, c.BB)

\* C22: lowering a loop while block B is current makes exactly three
\* blocks, header, body and after; appends to B a branch to header; fills
\* header with a load of the current cell, a compare with zero and a
\* conditional branch to after when the cell is zero and to body otherwise;
\* lowers the body of the loop starting in body, the current block passed
\* from each instruction to the next; appends a branch to header to the
\* block that is current when the body is done; and returns after.
C22_LoopLowering ==
    stage = "compiled" =>
        /\ LoopsLowered(Program, 1, LowerStart, 1)
        /\ Len(Main) = WalkEnd(Program, 1, 1).n

\* compileProgram has lowered a loop around an instruction and a loop.
C22_Witness ==
    /\ stage = "compiled"
    /\ Len(Program) = 1
    /\ Program[1].type = "BFLoop"
    /\ Len(Program[1].LoopBody) = 2
    /\ Program[1].LoopBody[2].type = "BFLoop"
    /\ Len(Main) = 7
    /\ Terminator(Main[7]) = [op |-> "br", dest |-> 2]

----------------------------------------------------------------------------
\* The control-flow graph of a function: the blocks a block branches to,
\* the blocks that branch to it, and dominance from the entry block.

Succ(F, b) ==
    LET t == Terminator(F[b])
    IN  IF F[b].insts = <<>> THEN {}
        ELSE IF t.op = "br" THEN {t.dest}
        ELSE IF t.op = "condbr" THEN {t.ifTrue, t.ifFalse}
        ELSE {}

Pred(F, b) == {a \in 1..Len(F) : b \in Succ(F, a)}

\* The blocks reached from the blocks of seen without passing through the
\* block without.
RECURSIVE ReachedAvoiding(_, _, _)
ReachedAvoiding(F, seen, without) ==
    LET more == (seen \cup UNION {Succ(F, a) : a \in seen}) \ {without}
    IN  IF more = seen THEN seen ELSE ReachedAvoiding(F, more, without)

\* Every path from the entry block to b passes through d.
Dominates(F, d, b) == d = b \/ b \notin ReachedAvoiding(F, {1} \ {d}, d)

\* The loops of Prog in the function lowered from it, by the count of loops
\* alone, when lowering starts with the current block BB and n blocks: the
\* block current before the loop, its three blocks, the block current at the
\* end of its body and the last block made while lowering it.
RECURSIVE LoopSites(_, _, _)
LoopSites(Prog, BB, n) ==
    IF Prog = <<>> THEN {}
    ELSE IF Head(Prog).type = "BFLoop"
        THEN LET end == WalkEnd(Head(Prog).LoopBody, n + 2, n + 3)
             IN  {[before |-> BB, header |-> n + 1, body |-> n + 2, after |-> n + 3,
                   bodyEnd |-> end.BB, last |-> end.n]}
                 \cup LoopSites(Head(Prog).LoopBody, n + 2, n + 3)
                 \cup LoopSites(Tail(Prog), n + 3, end.n)
    ELSE LoopSites(Tail(Prog), BB, n)

\* C23: for every loop of the lowered function, the header has exactly two
\* predecessors, the block current before the loop and the last block of
\* the body; the only predecessor of the first body block is the header;
\* the only predecessor of the after block is the header; and the header
\* dominates every block made while the body was lowered.
C23_LoopShape ==
    stage = "compiled" =>
        \A s \in LoopSites(Program, 1, 1) :
            /\ Main[s.header].name = "loop_header"
            /\ Pred(Main, s.header) = {s.before, s.bodyEnd}
            /\ s.before # s.bodyEnd
            /\ Pred(Main, s.body) = {s.header}
            /\ Pred(Main, s.after) = {s.header}
            /\ \A b \in s.body..s.last : Dominates(Main, s.header, b)

\* A lowered loop with a loop in its body, after a first loop: the inner
\* header is entered from the outer body and from its own body.
C23_Witness ==
    /\ stage = "compiled"
    /\ Cardinality(LoopSites(Program, 1, 1)) = 3
    /\ \E s \in LoopSites(Program, 1, 1) :
        /\ s.last > s.after
        /\ s.before = 4
        /\ Pred(Main, s.header + 3) = {s.body, s.header + 4}
        /\ Dominates(Main, s.header, s.last)
        /\ ~Dominates(Main, s.body, s.after)

----------------------------------------------------------------------------
\* The instructions that are not loops.

StraightLine(Inst) == Inst.type \in {"BFIncrement", "BFDataIncrement", "BFRead", "BFWrite"}

Branches(insts) == {k \in 1..Len(insts) : insts[k].op \in {"br", "condbr", "ret"}}

\* Lowering the straight-line instruction Inst into F with the current
\* block B appends to B and does nothing else.
AppendsOnly(Inst, F, B) ==
    LET c == compile(Inst, F, B)
        old == Len(F[B].insts)
    IN  /\ c.BB = B
        /\ Len(c.F) = Len(F)
        /\ \A b \in 1..Len(F) : b # B => c.F[b] = F[b]
        /\ c.F[B].name = F[B].name
        /\ Len(c.F[B].insts) > old
        /\ SubSeq(c.F[B].insts, 1, old) = F[B].insts
        /\ Branches(SubSeq(c.F[B].insts, old + 1, Len(c.F[B].insts))) = {}

\* AppendsOnly for every straight-line instruction of the tree of Prog,
\* each with the function and the block it is lowered into.
RECURSIVE StraightLineAppends(_, _, _, _)
StraightLineAppends(Prog, k, F, B) ==
    IF k > Len(Prog) THEN TRUE
    ELSE /\ IF StraightLine(Prog[k]) THEN AppendsOnly(Prog[k], F, B)
            ELSE LET n == Len(F)
                     opened == BranchAdded(F, B, n + 1)
                                   \o << [name |-> "loop_header",
                                          insts |-> LoopHeaderInsts(n + 3, n + 2)],
                                         [name |-> "loop_body", insts |-> <<>>],
                                         [name |-> "loop_after", insts |-> <<>>] >>
                 IN  StraightLineAppends(Prog[k].LoopBody, 1, opened, n + 2)
         /\ LET c == compile(Prog[k], F, B)
            IN  StraightLineAppends(Prog, k + 1, c.F, c.BB)

\* C24: lowering a straight-line instruction (BFIncrement, BFDataIncrement,
\* BFRead, BFWrite) appends instructions to the current block only, makes no
\* block, emits no branch and returns the block it was given; so the lowered
\* function has exactly 1 + 3 * L blocks, L the number of loops in the whole
\* tree of the Program.
C24_StraightLineFrame ==
    stage = "compiled" =>
        /\ StraightLineAppends(Program, 1, LowerStart, 1)
        /\ Len(Main) = 1 + 3 * CountLoops(Program)

\* A lowered Program with a straight-line instruction in the body of a
\* loop inside a loop: seven blocks, the instruction in the sixth.
C24_Witness ==
    /\ stage = "compiled"
    /\ Program = <<BFLoop(<<BFLoop(<<BFWrite>>)>>)>>
    /\ Len(Main) = 7
    /\ Len(Main[6].insts) > 1
    /\ Len(Main[3].insts) = 1

----------------------------------------------------------------------------
\* The operations compileProgram puts around those of the Program.

\* The places (block, position) of the function F that hold an operation
\* of the kind op; a call counts as its callee.
Places(F, op) ==
    {<<b, k>> \in (1..Len(F)) \X (1..30) :
        /\ k <= Len(F[b].insts)
        /\ \/ F[b].insts[k].op = op
           \/ F[b].insts[k].op = "call" /\ F[b].insts[k].callee = op}

\* The function F without the first three operations of its entry block
\* and without the last two of block end.
Unwrapped(F, end) ==
    LET cut == [F EXCEPT ![end].insts = SubSeq(@, 1, Len(@) - 2)]
    IN  [cut EXCEPT ![1].insts = SubSeq(@, 4, Len(@))]

\* F is the lowering of Prog wrapped as C25 says.
Wrapped(F, Prog) ==
    LET end == WalkEnd(Prog, 1, 1).BB
        last == Len(F[end].insts)
    IN  /\ F[1].name = "entry"
        /\ Len(F[1].insts) >= 3
        /\ F[1].insts[1] = [op |-> "call", dst |-> "CellsPtr", callee |-> "calloc",
                            args |-> <<[bits |-> 32, val |-> 30000],
                                       [bits |-> 32, val |-> 1]>>]
        /\ F[1].insts[2].op = "alloca"
        /\ F[1].insts[2].dst = "CellIndexPtr"
        /\ F[1].insts[3].op = "store"
        /\ F[1].insts[3].val = [bits |-> 32, val |-> 0]
        /\ F[1].insts[3].ptr = Reg("CellIndexPtr")
        /\ Places(F, "calloc") = {<<1, 1>>}
        /\ Places(F, "alloca") = {<<1, 2>>}
        /\ last >= 2
        /\ F[end].insts[last - 1].op = "call"
        /\ F[end].insts[last - 1].callee = "free"
        /\ F[end].insts[last - 1].args = <<Reg("CellsPtr")>>
        /\ F[end].insts[last] = [op |-> "ret", val |-> [bits |-> 32, val |-> 0]]
        /\ Places(F, "free") = {<<end, last - 1>>}
        /\ Places(F, "ret") = {<<end, last>>}
        /\ Unwrapped(F, end) = compileAll(Prog, 1, CreateBlock(<<>>, "entry"), 1).F

\* C25: in the lowered function the allocation of a tape of NUM_CELLS =
\* 30000 zeroed byte cells and the initialisation of the cell pointer to 0
\* are in the entry block before every operation of the Program; freeing the
\* tape and then returning 0 are the last operations, in the block that is
\* current after the last top-level instruction (the after block of the last
\* loop, the entry block when there is no loop).
C25_Wrapping == stage \in {"compiled", "printed"} => Wrapped(Main, Program)

\* compileProgram of src/src/bfir.cpp has wrapped a Program that ends with
\* a loop: the tape is freed in the after block of that loop.
C25_WrappedBfir ==
    /\ stage = "compiled"
    /\ Len(Program) = 2
    /\ Program[1] = BFRead
    /\ Program[2].type = "BFLoop"
    /\ Wrapped(Main, Program)
    /\ Places(Main, "ret") = {<<4, 2>>}

----------------------------------------------------------------------------
\* The pointer and the ends of the tape: eval_program run to its end, turn
\* by turn, on sources that move the pointer, one of them to the last cell
\* and beyond (src/c/main.c), and the function lowered from the same source
\* (src/src/bfir.cpp)

MaxTapeLen == 3

\* The most turns of a run of eval_program on a source of TapeSources:
\* "+[->+]" takes one turn, five turns for each of 29999 cells, and three.
MaxEvalTurns == 150000

TapeSources ==
    SeqsUpTo({"<", ">", "+"}, MaxTapeLen) \cup {<<"+", "[", "-", ">", "+", "]">>}

\* One turn of the while loop of eval_program(Source), or its return.
EvalProgramTurn ==
    /\ stage = "compiled"
    /\ Stopped(run)
    /\ IF ev = Idle THEN ev' = EvalStart
       ELSE /\ ev.status = "running"
            /\ ev.steps < MaxEvalTurns
            /\ IF ev.instruction_index < Len(Source)
                   THEN ev' = EvalTurn(Source, ev, Input, charSigned)
               ELSE ev' = [ev EXCEPT !.status = "done"]
    /\ UNCHANGED <<parserVars, Original, Program, Main, Input, charSigned, run, eqVars, heapVars>>

InitTape ==
    /\ Source \in TapeSources
    /\ Input = <<>>
    /\ charSigned \in BOOLEAN
    /\ stage = "parsed"
    /\ Stack = <<>>
    /\ Err = NoErr
    /\ Original = parseSource(Source).Program
    /\ Program = Original
    /\ IdleRuns
    /\ IdleCompare
    /\ IdleHeap

NextTape ==
    \/ CompileProgram
    \/ RunMain
    \/ EvalProgramTurn

SpecTape == InitTape /\ [][NextTape]_vars

\* The sum of the amounts of a Program of BFDataIncrements.
RECURSIVE PointerMoves(_)
PointerMoves(Prog) ==
    IF Prog = <<>> THEN 0 ELSE Head(Prog).Amount + PointerMoves(Tail(Prog))

\* eval_program is at the marker c with the pointer on cell i.
EvalAt(c, i) ==
    /\ ev # Idle
    /\ ev.status = "running"
    /\ ev.instruction_index < Len(Source)
    /\ At(Source, ev.instruction_index) = c
    /\ ev.data_index = i

----------------------------------------------------------------------------
\* The lowered function against the byte-tape meaning of the Program

\* The tree machine t shows what the machine m of the lowered function
\* shows: the bytes written, the tape, the pointer, the input consumed, and
\* the end of the run.  A run of the function that has used a cell outside
\* the tape has no defined state, and is matched by the same use in the tree.
Shows(t, m) ==
    IF m.status = "undefined" THEN t.status = "offtape"
    ELSE /\ t.status # "offtape"
         /\ t.out = m.out
         /\ t.cells = m.cells
         /\ t.ptr = m.CellIndex
         /\ t.inpos = m.inpos
         /\ t.status = "done" <=> m.status = "returned"

\* The run of the tree machine from t, which has made n steps, shows m
\* after at least lo and at most hi steps.
RECURSIVE ShownWithin(_, _, _, _, _, _)
ShownWithin(t, n, m, Inp, lo, hi) ==
    IF n >= lo /\ Shows(t, m) THEN TRUE
    ELSE IF n >= hi \/ t.status # "running" THEN FALSE
    ELSE ShownWithin(TreeStep(t, Inp), n + 1, m, Inp, lo, hi)

\* C27: the lowered function does what the Program means, for Programs of
\* BFIncrement, BFDataIncrement, BFRead, BFWrite and BFLoop: after each of
\* its blocks the bytes written, the tape and the pointer are those of the
\* run of the Program at some step, the function returns exactly when the
\* run of the Program ends, and then output, tape and pointer are the
\* final ones.  Of the blocks run, all but the first, every second at least
\* is a loop header, one step of the Program; a block runs at most the
\* instructions of the Program that are not loops.
C27_LoweringRefines ==
    (stage = "compiled" /\ run.steps > 0) =>
        ShownWithin(TreeStart(Program), 0, run, Input,
                    (run.steps - 1) \div 2, (run.steps + 1) * (MaxLowerSize + 1))

\* The function has returned after running the body of a loop once, which
\* brings the cell back to zero, as the run of the Program does in 5 steps.
C27_Witness ==
    /\ stage = "compiled"
    /\ Program = <<BFIncrement(1), BFLoop(<<BFIncrement(-1)>>)>>
    /\ run.status = "returned"
    /\ run.steps = 5
    /\ run.cells = ZeroedCells
    /\ TreeRun(Program, Input, 2).cells # ZeroedCells
    /\ TreeRun(Program, Input, 5).status = "done"
    /\ TreeRun(Program, Input, 5).cells = ZeroedCells

----------------------------------------------------------------------------
\* A pass called again on what it returned

\* The Program returned by the pass named by stage is returned unchanged by
\* the same pass.
PassIdempotent ==
    /\ stage = "combineIncrements" => combineIncrements(Program) = Program
    /\ stage = "combineDataIncrements" => combineDataIncrements(Program) = Program
    /\ stage = "combineSets" => combineSets(Program) = Program
    /\ stage = "simplifyZeroingLoop" => simplifyZeroingLoop(Program) = Program
    /\ stage = "combineSetAndIncrements" => combineSetAndIncrements(Program) = Program

PipelineIdempotent == stage = "optimised" => applyAllPasses(Program) = Program

----------------------------------------------------------------------------
\* The whole compiler run to its end: parseSource, applyAllPasses or not,
\* compileProgram.  The compiler is one sequential program, which takes its
\* next step whenever it has one.

MaxLiveLen == 4

LiveAlphabet == {"+", ">", "[", "]", "c"}

\* main before readSource.
InitLive ==
    /\ Source = <<>>
    /\ Input = <<>>
    /\ charSigned = TRUE
    /\ stage = "read"
    /\ Stack = <<>>
    /\ Err = NoErr
    /\ Original = <<>>
    /\ Program = <<>>
    /\ IdleRuns
    /\ IdleCompare
    /\ IdleHeap

\* readSource returns the text of the file, and parseSource is called on it.
ReadSource ==
    /\ stage = "read"
    /\ Source' \in SeqsUpTo(LiveAlphabet, MaxLiveLen)
    /\ stage' = "parse"
    /\ Stack' = <<Frame(0, Len(Source'))>>
    /\ UNCHANGED <<Err, Original, Program, runVars, eqVars, heapVars>>

NextLive ==
    \/ ReadSource
    \/ Parse
    \/ ApplyAllPasses
    \/ CompileProgram

\* The step from a parsed or optimised Program to the compiled function:
\* the steps of CompileProgram as stage shows them.  compileProgram has a
\* value for every Program, so such a step is possible whenever stage is
\* "parsed" or "optimised".
Lowering == stage \in {"parsed", "optimised"} /\ stage' = "compiled"

SpecLive ==
    /\ InitLive
    /\ [][NextLive]_vars
    /\ WF_vars(ReadSource \/ Parse \/ ApplyAllPasses)
    /\ WF_stage(Lowering)

\* The deepest nesting of brackets of S.
NestingDepth(S) ==
    LET depths == {Depth(S, 0, k) : k \in 0..(Len(S) - 1)} \cup {0}
    IN  CHOOSE d \in depths : \A e \in depths : e <= d

\* A step of the parser that is not an exit: no activation moves its I
\* back, and the innermost activation, when it is not one just called, has
\* moved its I forward.
ParserAdvances ==
    (stage = "parse" /\ stage' # "exit") =>
        /\ \A d \in 1..Len(Stack') : d <= Len(Stack) => Stack'[d].I >= Stack[d].I
        /\ (Stack' # <<>> /\ Len(Stack') <= Len(Stack))
               => Stack'[Len(Stack')].I > Stack[Len(Stack')].I
        /\ Len(Stack') = Len(Stack) + 1
               => Stack'[Len(Stack')].I = Stack[Len(Stack)].I + 1

\* Every block of F ends with its only br, condbr or ret.
WellTerminated(F) ==
    \A b \in 1..Len(F) : Branches(F[b].insts) = {Len(F[b].insts)}

PipelineState ==
    /\ stage = "parse" =>
           /\ Len(Stack) - 1 <= NestingDepth(Source)
           /\ \A d \in 1..Len(Stack) : Stack[d].I <= Stack[d].To
    /\ stage = "compiled" =>
           /\ Len(Main) >= 1
           /\ WellTerminated(Main)
           /\ Cardinality(Places(Main, "ret")) = 1
    /\ stage = "exit" => Err.msg \in {"Unmatched '['", "Unmatched ']'"}
    /\ stage \in {"read", "parse", "exit", "parsed", "pass1", "pass2", "pass3", "pass4",
                  "pass5", "optimised", "compiled"}

Ended == stage \in {"compiled", "exit"}

\* C30: on every source the compiler comes to its end.  In
\* parseSourceBetween I grows on every turn of every call and the calls are
\* never nested deeper than the brackets of the source; every pass returns;
\* lowering returns; and the run ends with a function in which every block
\* has exactly one terminator, its last operation, and which has one return,
\* or with the exit on an unmatched bracket.
C30_Terminates == [][ParserAdvances]_vars /\ []PipelineState /\ <>Ended

\* The compiler has ended on "[[]]" with the seven blocks of two loops.
C30_Witness ==
    /\ Source = <<"[", "[", "]", "]">>
    /\ stage = "compiled"
    /\ Len(Main) = 7
    /\ WellTerminated(Main)
    /\ Places(Main, "ret") = {<<4, 2>>}

----------------------------------------------------------------------------
\* The passes on BFPrograms in memory (src/src/optimisations.cpp).  A
\* BFProgram is a vector of BFInstPtr, here a sequence of addresses; Heap
\* holds the instruction objects, the LoopBody of a BFLoop being again a
\* sequence of addresses.  new makes an object at an address not in use.

MaxHeapSize == 3

\* No object: the BFInstPtr *Last when it is nullptr.
NoObject == 0

\* BFInstPtr(new ...): the heap with the new object, and its address.
New(heap, object) == [heap |-> Append(heap, object), ptr |-> Len(heap) + 1]

\* A Program stored object by object, the bodies of its loops first.
RECURSIVE StoreProgram(_, _, _, _)
StoreProgram(heap, P, k, ptrs) ==
    IF k > Len(P) THEN [heap |-> heap, ptrs |-> ptrs]
    ELSE IF P[k].type = "BFLoop"
        THEN LET body == StoreProgram(heap, P[k].LoopBody, 1, <<>>)
                 loop == New(body.heap, [type |-> "BFLoop", LoopBody |-> body.ptrs])
             IN  StoreProgram(loop.heap, P, k + 1, Append(ptrs, loop.ptr))
    ELSE LET inst == New(heap, P[k])
         IN  StoreProgram(inst.heap, P, k + 1, Append(ptrs, inst.ptr))

\* The Program that the vector ptrs holds in heap.
RECURSIVE LoadProgram(_, _)
LoadProgram(heap, ptrs) ==
    [k \in 1..Len(ptrs) |->
        IF heap[ptrs[k]].type = "BFLoop"
            THEN BFLoop(LoadProgram(heap, heap[ptrs[k]].LoopBody))
        ELSE heap[ptrs[k]]]

\* The result of a pass: what it has made of the heap, and its Result.
Passed(heap, Result) == [heap |-> heap, Result |-> Result]

\* if (Last != nullptr) Result.push_back(*Last); return Result;
ReturnPtr(heap, Result, Last) ==
    Passed(heap, IF Last # NoObject THEN Append(Result, Last) ELSE Result)

markKnownZeroPtr(heap, Sequence) ==
    LET Ptr == New(heap, BFSet(0))
    IN  Passed(Ptr.heap, <<Ptr.ptr>> \o Sequence)

\* A combineIncrements that adds the amount into the object of Last.
RECURSIVE combineIncrementsInPlaceLoop(_, _, _, _, _)
combineIncrementsInPlaceLoop(heap, Sequence, k, Result, Last) ==
    IF k > Len(Sequence) THEN ReturnPtr(heap, Result, Last)
    ELSE LET Current == Sequence[k]
         IN  IF Last = NoObject
                 THEN combineIncrementsInPlaceLoop(heap, Sequence, k + 1, Result, Current)
             ELSE IF heap[Last].type = "BFIncrement" /\ heap[Current].type = "BFIncrement"
                 THEN LET Sum == heap[Current].Amount + heap[Last].Amount
                      IN  IF Sum = 0
                              THEN combineIncrementsInPlaceLoop(heap, Sequence, k + 1,
                                                                Result, NoObject)
                          ELSE combineIncrementsInPlaceLoop(
                                   [heap EXCEPT ![Last].Amount = Sum], Sequence, k + 1,
                                   Result, Last)
             ELSE combineIncrementsInPlaceLoop(heap, Sequence, k + 1,
                                               Append(Result, Last), Current)

combineIncrementsInPlace(heap, Sequence) ==
    combineIncrementsInPlaceLoop(heap, Sequence, 1, <<>>, NoObject)

RECURSIVE combineIncrementsPtrLoop(_, _, _, _, _)
combineIncrementsPtrLoop(heap, Sequence, k, Result, Last) ==
    IF k > Len(Sequence) THEN ReturnPtr(heap, Result, Last)
    ELSE LET Current == Sequence[k]
         IN  IF Last = NoObject
                 THEN combineIncrementsPtrLoop(heap, Sequence, k + 1, Result, Current)
             ELSE IF heap[Last].type = "BFIncrement" /\ heap[Current].type = "BFIncrement"
                 THEN LET Sum == heap[Current].Amount + heap[Last].Amount
                          Made == New(heap, BFIncrement(Sum))
                      IN  IF Sum = 0
                              THEN combineIncrementsPtrLoop(heap, Sequence, k + 1,
                                                            Result, NoObject)
                          ELSE combineIncrementsPtrLoop(Made.heap, Sequence, k + 1,
                                                        Result, Made.ptr)
             ELSE combineIncrementsPtrLoop(heap, Sequence, k + 1,
                                           Append(Result, Last), Current)

combineIncrementsPtr(heap, Sequence) ==
    combineIncrementsPtrLoop(heap, Sequence, 1, <<>>, NoObject)

RECURSIVE combineDataIncrementsPtrLoop(_, _, _, _, _)
combineDataIncrementsPtrLoop(heap, Sequence, k, Result, Last) ==
    IF k > Len(Sequence) THEN ReturnPtr(heap, Result, Last)
    ELSE LET Current == Sequence[k]
         IN  IF Last = NoObject
                 THEN combineDataIncrementsPtrLoop(heap, Sequence, k + 1, Result, Current)
             ELSE IF /\ heap[Last].type = "BFDataIncrement"
                     /\ heap[Current].type = "BFDataIncrement"
                 THEN LET Sum == heap[Current].Amount + heap[Last].Amount
                          Made == New(heap, BFDataIncrement(Sum))
                      IN  IF Sum = 0
                              THEN combineDataIncrementsPtrLoop(heap, Sequence, k + 1,
                                                                Result, NoObject)
                          ELSE combineDataIncrementsPtrLoop(Made.heap, Sequence, k + 1,
                                                            Result, Made.ptr)
             ELSE combineDataIncrementsPtrLoop(heap, Sequence, k + 1,
                                               Append(Result, Last), Current)

combineDataIncrementsPtr(heap, Sequence) ==
    combineDataIncrementsPtrLoop(heap, Sequence, 1, <<>>, NoObject)

RECURSIVE combineSetAndIncrementsPtrLoop(_, _, _, _, _)
combineSetAndIncrementsPtrLoop(heap, Sequence, k, Result, Last) ==
    IF k > Len(Sequence) THEN ReturnPtr(heap, Result, Last)
    ELSE LET Current == Sequence[k]
         IN  IF Last = NoObject
                 THEN combineSetAndIncrementsPtrLoop(heap, Sequence, k + 1, Result, Current)
             ELSE IF heap[Last].type = "BFSet" /\ heap[Current].type = "BFIncrement"
                 THEN LET Sum == heap[Last].Amount + heap[Current].Amount
                          Made == New(heap, BFSet(Sum))
                      IN  combineSetAndIncrementsPtrLoop(Made.heap, Sequence, k + 1,
                                                         Result, Made.ptr)
             ELSE combineSetAndIncrementsPtrLoop(heap, Sequence, k + 1,
                                                 Append(Result, Last), Current)

combineSetAndIncrementsPtr(heap, Sequence) ==
    combineSetAndIncrementsPtrLoop(heap, Sequence, 1, <<>>, NoObject)

RECURSIVE combineSetsPtrLoop(_, _, _, _, _)
combineSetsPtrLoop(heap, Sequence, k, Result, Last) ==
    IF k > Len(Sequence) THEN ReturnPtr(heap, Result, Last)
    ELSE LET Current == Sequence[k]
         IN  IF Last = NoObject
                 THEN combineSetsPtrLoop(heap, Sequence, k + 1, Result, Current)
             ELSE IF heap[Last].type = "BFSet" /\ heap[Current].type = "BFSet"
                 THEN combineSetsPtrLoop(heap, Sequence, k + 1, Result, Current)
             ELSE combineSetsPtrLoop(heap, Sequence, k + 1, Append(Result, Last), Current)

combineSetsPtr(heap, Sequence) == combineSetsPtrLoop(heap, Sequence, 1, <<>>, NoObject)

\* The range-for of simplifyZeroingLoop at element k; body is the local
\* ZeroingLoopBody, a vector of one pointer.
RECURSIVE simplifyZeroingLoopPtrLoop(_, _, _, _, _)
simplifyZeroingLoopPtrLoop(heap, Sequence, k, Result, body) ==
    IF k > Len(Sequence) THEN Passed(heap, Result)
    ELSE LET Current == Sequence[k]
             SetPtr == New(heap, BFSet(0))
         IN  IF /\ heap[Current].type = "BFLoop"
                /\ ProgEq(LoadProgram(heap, heap[Current].LoopBody), LoadProgram(heap, body))
                 THEN simplifyZeroingLoopPtrLoop(SetPtr.heap, Sequence, k + 1,
                                                 Append(Result, SetPtr.ptr), body)
             ELSE simplifyZeroingLoopPtrLoop(heap, Sequence, k + 1,
                                             Append(Result, Current), body)

simplifyZeroingLoopPtr(heap, Sequence) ==
    LET Ptr == New(heap, BFIncrement(-1))
    IN  simplifyZeroingLoopPtrLoop(Ptr.heap, Sequence, 1, <<>>, <<Ptr.ptr>>)

applyAllPassesPtr(heap, InitialProgram) ==
    LET p1 == combineIncrementsPtr(heap, InitialProgram)
        p2 == combineDataIncrementsPtr(p1.heap, p1.Result)
        p3 == markKnownZeroPtr(p2.heap, p2.Result)
        p4 == combineSetsPtr(p3.heap, p3.Result)
        p5 == simplifyZeroingLoopPtr(p4.heap, p4.Result)
    IN  combineSetAndIncrementsPtr(p5.heap, p5.Result)

\* A pass is called on Arg and returns: Ret is what it returns, Program the
\* same as a value.  Arg is a const reference and is not assigned.
CallPtr(pass, passed, value) ==
    /\ stage = "call"
    /\ Heap' = passed.heap
    /\ Ret' = passed.Result
    /\ Program' = value
    /\ stage' = pass
    /\ UNCHANGED <<Source, Stack, Err, Original, Arg, runVars, eqVars>>

PtrCombineIncrements ==
    CallPtr("combineIncrements", combineIncrementsPtr(Heap, Arg), combineIncrements(Program))

PtrCombineDataIncrements ==
    CallPtr("combineDataIncrements", combineDataIncrementsPtr(Heap, Arg),
            combineDataIncrements(Program))

PtrMarkKnownZero ==
    CallPtr("markKnownZero", markKnownZeroPtr(Heap, Arg), markKnownZero(Program))

PtrCombineSets == CallPtr("combineSets", combineSetsPtr(Heap, Arg), combineSets(Program))

PtrSimplifyZeroingLoop ==
    CallPtr("simplifyZeroingLoop", simplifyZeroingLoopPtr(Heap, Arg),
            simplifyZeroingLoop(Program))

PtrCombineSetAndIncrements ==
    CallPtr("combineSetAndIncrements", combineSetAndIncrementsPtr(Heap, Arg),
            combineSetAndIncrements(Program))

PtrApplyAllPasses ==
    CallPtr("applyAllPasses", applyAllPassesPtr(Heap, Arg), applyAllPasses(Program))

InitHeap ==
    /\ Source = <<>>
    /\ Input = <<>>
    /\ charSigned = TRUE
    /\ stage = "call"
    /\ Stack = <<>>
    /\ Err = NoErr
    /\ Original \in ProgsUpTo(PassAtoms, MaxHeapSize)
    /\ Program = Original
    /\ IdleRuns
    /\ IdleCompare
    /\ Heap = StoreProgram(<<>>, Original, 1, <<>>).heap
    /\ Arg = StoreProgram(<<>>, Original, 1, <<>>).ptrs
    /\ Ret = <<>>

NextHeap ==
    \/ PtrCombineIncrements
    \/ PtrCombineDataIncrements
    \/ PtrMarkKnownZero
    \/ PtrCombineSets
    \/ PtrSimplifyZeroingLoop
    \/ PtrCombineSetAndIncrements
    \/ PtrApplyAllPasses

SpecHeap == InitHeap /\ [][NextHeap]_vars

\* The objects reached from the vector ptrs in heap.
RECURSIVE Reached(_, _)
Reached(heap, ptrs) ==
    UNION {{ptrs[k]} \cup (IF heap[ptrs[k]].type = "BFLoop"
                              THEN Reached(heap, heap[ptrs[k]].LoopBody)
                           ELSE {})
           : k \in 1..Len(ptrs)}

\* C21: the passes are pure.  After each of the six passes and after
\* applyAllPasses the argument is the Program it was, with the same
\* pointers to the same objects, and no object that existed before the
\* call has changed; every pointer of the result is a pointer of the
\* argument, to an object left as it was, or points to an object made
\* during the call; and the result is the Program the pass computes.
C21_PassesPure ==
    stage # "call" =>
        LET before == StoreProgram(<<>>, Original, 1, <<>>)
        IN  /\ Arg = before.ptrs
            /\ LoadProgram(Heap, Arg) = Original
            /\ Len(Heap) >= Len(before.heap)
            /\ \A a \in 1..Len(before.heap) : Heap[a] = before.heap[a]
            /\ \A k \in 1..Len(Ret) :
                   \/ Ret[k] \in {Arg[j] : j \in 1..Len(Arg)}
                   \/ Ret[k] > Len(before.heap)
            /\ \A k \in 1..Len(Ret) :
                   Ret[k] <= Len(before.heap)
                       => LoadProgram(Heap, <<Ret[k]>>) \in
                              {<<Original[j]>> : j \in 1..Len(Original)}
            /\ LoadProgram(Heap, Ret) = Program

\* combineIncrements has returned a vector with the pointer to the first
\* object of its argument, a loop, and a pointer to a new BFIncrement made
\* of the two that follow the loop.
C21_Witness ==
    /\ stage = "combineIncrements"
    /\ Original = <<BFLoop(<<>>), BFIncrement(1), BFIncrement(1)>>
    /\ Arg = <<1, 2, 3>>
    /\ Ret = <<1, 4>>
    /\ Heap[2] = BFIncrement(1)
    /\ Heap[4] = BFIncrement(2)

====
